---- MODULE Spec2Model ----
\* POP3 -> SMTP mail forwarder (src/mail_forwarder.py): the retrieval / relay /
\* dedup state machine of MailForwarder, with the mailbox server, the relay
\* and the process's environment (signals, kill, clock, mail arrival).
EXTENDS Integers, Sequences, FiniteSets, TLC

\* ------------------------------------------------------------------ bounds
MaxUidl == 2        \* messages that ever arrive on the mailbox
MaxAge == 2         \* ages of ledger rows are told apart up to MaxAge days
MaxDate == 1        \* Date header instants 0..MaxDate; cutoffs 1..MaxDate

UIDLS == 1..MaxUidl
Dates == 0..MaxDate

\* ------------------------------------------------------- values and inputs
NoEntry == [present |-> FALSE]
NoMail == [present |-> FALSE]
NoDate == <<"none", 0>>          \* Python None for start_date / mail_date
NoBatch == [done |-> {}, left |-> {}, rerun |-> FALSE]
NoSubmit == [present |-> FALSE]
NoArg == [given |-> FALSE]       \* --start-date was not given
NoRelay == [open |-> FALSE, dialed |-> FALSE, sent |-> NoSubmit]

\* The messages the server can hold, by what the parser makes of them.
\* from_ok = FALSE: a From header parseaddr() raises on (raw 8-bit bytes);
\* date: the Date header: absent, unparsable, parsed with a UTC offset
\* ("aware", instant d) or parsed without one ("naive": "-0000" or no zone).
MailKinds ==
    {[present |-> TRUE, from_ok |-> FALSE, date |-> <<"missing", 0>>],
     [present |-> TRUE, from_ok |-> TRUE, date |-> <<"missing", 0>>],
     [present |-> TRUE, from_ok |-> TRUE, date |-> <<"invalid", 0>>]}
    \cup {[present |-> TRUE, from_ok |-> TRUE, date |-> <<k, d>>] :
             k \in {"aware", "naive"}, d \in Dates}

\* The messages that arrive in the life-cycle specification: one per way
\* the fetch loop can treat a message (raise, skip when a cutoff is set,
\* forward); the reconciliation specification draws from all of MailKinds.
ArrivalKinds ==
    {[present |-> TRUE, from_ok |-> FALSE, date |-> <<"missing", 0>>],
     [present |-> TRUE, from_ok |-> TRUE, date |-> <<"aware", 0>>],
     [present |-> TRUE, from_ok |-> TRUE, date |-> <<"aware", MaxDate>>]}

\* --start-date: absent, or a cutoff instant (always carries the JST offset)
StartDates == {NoDate} \cup {<<"aware", d>> : d \in 1..MaxDate}

\* mail_retention_days of the configuration: disabled, one day
RetentionChoices == {0, 1}

Modes == {"once", "daemon"}

VARIABLES
    mode,             \* --once / --daemon of the running process
    start_date,       \* self.start_date
    retention_days,   \* config['mail_retention_days']
    pop_before_smtp,  \* config['smtp']['pop_before_smtp']
    config_file,      \* what the file at config_path is to the loader
    db_ready,         \* _init_database has run in this process
    arg_start_date,   \* args.start_date, the text given with --start-date
    running,          \* self.running
    pc,               \* position of the process
    now,              \* datetime.now(), in days
    retrieved_mails,  \* the ledger table, keyed by uidl
    mailbox,          \* the POP3 maildrop: uidl -> message
    nextUidl,         \* next UIDL the server assigns
    server_uidls,     \* uidl -> msg_num of the open POP3 session
    dele_marks,       \* msg_nums marked by DELE in the open session
    sessions,         \* the POP3 connections the process holds open, by the
                      \* function that opened them
    mails_to_delete,  \* rows of the sweep's SELECT not yet visited
    txn,              \* uidls DELETEd on the sweep's connection, uncommitted
    new_uidls,        \* members of new_uidls the fetch loop has not passed
    skipped,          \* uidls counted in skipped_count by the fetch
    retrs,            \* uidls of the messages RETR was issued for
    fetch_error,      \* the exception the last fetch logged at line 739, or
                      \* "none"
    new_mails,        \* the list _fetch_new_mails returns
    idx,              \* position of the relay loop in new_mails
    success,          \* result of the _forward_mail call awaiting its save
    outcomes,         \* results of the _forward_mail calls of the relay loop
    smtp,             \* the relay connection of the _forward_mail call in
                      \* progress and what it has been given to send
    ever_ok,          \* uidls for which a success=true row was ever written
    interrupted,      \* the batch a kill cut short: uidls relayed and saved,
                      \* uidls not yet taken up, and whether the cycle that
                      \* follows the kill has begun
    settled           \* "yes": a reconciliation ran to its end without an
                      \* error and the maildrop has not changed since it
                      \* listed it; "listed": the running one has met no
                      \* error and no change so far; "no" otherwise

procVars == <<mode, running, pc>>
cfgVars == <<start_date, retention_days, pop_before_smtp, config_file, db_ready,
             arg_start_date>>
envVars == <<now, mailbox, nextUidl>>
sessVars == <<server_uidls, dele_marks, sessions>>
sweepVars == <<mails_to_delete, txn>>
fetchVars == <<new_uidls, skipped, retrs, fetch_error>>
relayVars == <<new_mails, idx, success, outcomes, smtp>>
histVars == <<ever_ok, interrupted, settled>>

vars == <<procVars, cfgVars, envVars, retrieved_mails, sessVars, sweepVars,
          fetchVars, relayVars, histVars>>

\* ----------------------------------------------------------------- helpers
EmptyMap == [u \in {} |-> 0]

\* UIDL command: the maildrop as the session sees it, numbered from 1 in
\* ascending order of arrival
uidl_list(box) ==
    LET present == {u \in UIDLS : box[u].present}
    IN [u \in present |-> Cardinality({v \in present : v <= u})]

\* the message a msg_num of the session addresses
MsgOf(map, n) == CHOOSE u \in DOMAIN map : map[u] = n

\* a read of the ledger that returns no UIDL
get_retrieved_uidls_none(tbl) == {}

\* a read of the ledger that leaves out the rows of failed relays
get_retrieved_uidls_ok(tbl) ==
    {u \in UIDLS : tbl[u].present /\ tbl[u].forward_success}

\* SELECT uidl FROM retrieved_mails
get_retrieved_uidls(tbl) == {u \in UIDLS : tbl[u].present}

\* a write that records every relay as successful
save_retrieved_mail_success(tbl, t, uidl, who, ok) ==
    [tbl EXCEPT ![uidl] = [present |-> TRUE, forward_success |-> TRUE,
                           forwarded_at |-> t, who |-> who]]

\* a write that records the opposite of the flag it is given
save_retrieved_mail_negated(tbl, t, uidl, who, ok) ==
    [tbl EXCEPT ![uidl] = [present |-> TRUE, forward_success |-> ~ok,
                           forwarded_at |-> t, who |-> who]]

\* INSERT OR REPLACE of one row at local time t; who stands for the
\* (from_addr, subject) pair of the message the row was written for
save_retrieved_mail(tbl, t, uidl, who, ok) ==
    [tbl EXCEPT ![uidl] = [present |-> TRUE, forward_success |-> ok,
                           forwarded_at |-> t, who |-> who]]

\* a date parse that takes the epoch for a header it cannot parse
mail_date_of_epoch(m) ==
    IF m.date[1] = "missing" THEN NoDate
    ELSE IF m.date[1] = "invalid" THEN <<"aware", 0>> ELSE m.date

\* lines 682-688: parsedate_to_datetime under try/except; None when the
\* header is absent or unparsable
mail_date_of(m) ==
    IF m.date[1] \in {"missing", "invalid"} THEN NoDate ELSE m.date

\* locals of a process that is in no cycle
Idle ==
    /\ server_uidls = EmptyMap
    /\ dele_marks = {}
    /\ sessions = {}
    /\ mails_to_delete = {}
    /\ txn = {}
    /\ new_uidls = {}
    /\ skipped = {}
    /\ retrs = {}
    /\ fetch_error = "none"
    /\ new_mails = <<>>
    /\ idx = 0
    /\ success = FALSE
    /\ outcomes = <<>>
    /\ smtp = NoRelay

\* before the first run: an empty ledger and maildrop. The configuration file
\* and the --start-date of the deployment are drawn here and every run of
\* the process uses them.
Init ==
    /\ mode = "once"
    /\ start_date \in StartDates
    /\ retention_days \in RetentionChoices
    /\ pop_before_smtp = FALSE
    /\ config_file = "ok"
    /\ arg_start_date = NoArg
    /\ db_ready = TRUE
    /\ running = FALSE
    /\ pc = "stopped"
    /\ now = 0
    /\ retrieved_mails = [u \in UIDLS |-> NoEntry]
    /\ mailbox = [u \in UIDLS |-> NoMail]
    /\ nextUidl = 1
    /\ Idle
    /\ ever_ok = {}
    /\ interrupted = NoBatch
    /\ settled = "no"

\* a function that returns without QUIT keeps its connection open
NoSession_open ==
    /\ server_uidls' = EmptyMap
    /\ dele_marks' = {}
    /\ UNCHANGED sessions

\* no POP3 session is held: QUIT was answered, or the function that opened
\* the connection has returned and its local pop_conn, the only reference
\* to the connection, is released, which closes the socket
NoSession ==
    /\ server_uidls' = EmptyMap
    /\ dele_marks' = {}
    /\ sessions' = {}

\* the locals of a cycle that is over
CycleOver ==
    /\ new_uidls' = {}
    /\ skipped' = {}
    /\ retrs' = {}
    /\ UNCHANGED fetch_error
    /\ new_mails' = <<>>
    /\ idx' = 0
    /\ success' = FALSE
    /\ outcomes' = <<>>
    /\ smtp' = NoRelay

\* the process ends: return from main, or an uncaught exception
Exit ==
    /\ pc' = "stopped"
    /\ running' = FALSE
    /\ UNCHANGED mode
    /\ CycleOver

\* a POP3 session of the program is in its TRANSACTION state
SessionOpen == pc \in {"sw_loop", "sw_quit", "f_loop"}

\* uidls of the tuples at positions from..to of a list
UidlsAt(list, from, to) == {list[j].uidl : j \in from..to}

\* the record of a reconciliation that an error or a kill ends
Unsettle(s) == IF s = "yes" THEN "yes" ELSE "no"

\* ------------------------------------------------------------- environment
\* a message is delivered to the maildrop under a fresh UIDL; the maildrop
\* is locked while a session is open (RFC 1939, section 4)
Arrive ==
    /\ ~SessionOpen
    /\ nextUidl <= MaxUidl
    /\ \E m \in ArrivalKinds : mailbox' = [mailbox EXCEPT ![nextUidl] = m]
    /\ nextUidl' = nextUidl + 1
    /\ settled' = "no"
    /\ UNCHANGED <<procVars, cfgVars, now, retrieved_mails, sessVars,
                   sweepVars, fetchVars, relayVars, ever_ok, interrupted>>

\* a message is removed from the maildrop by another client of the account
Remove ==
    /\ ~SessionOpen
    /\ \E u \in UIDLS :
          /\ mailbox[u].present
          /\ mailbox' = [mailbox EXCEPT ![u] = NoMail]
    /\ settled' = "no"
    /\ UNCHANGED <<procVars, cfgVars, now, nextUidl, retrieved_mails, sessVars,
                   sweepVars, fetchVars, relayVars, ever_ok, interrupted>>

\* The clock is kept relative to the present: now stays 0 and a day that
\* passes lowers every forwarded_at by one. Rows older than MaxAge days are
\* not told apart (MaxAge exceeds every retention window of the model).
Older(row) ==
    IF row.present /\ row.forwarded_at > 0 - MaxAge
    THEN [row EXCEPT !.forwarded_at = @ - 1]
    ELSE row

\* a day passes, while the process sleeps or is down
Tick ==
    /\ pc \in {"stopped", "sleep"}
    /\ retrieved_mails' = [u \in UIDLS |-> Older(retrieved_mails[u])]
    /\ UNCHANGED <<procVars, cfgVars, envVars, sessVars, sweepVars, fetchVars,
                   relayVars, histVars>>

\* the batch a kill at this point cuts short: the messages relayed with
\* their row written, and the messages the loop has not taken up
CutBatch ==
    LET saved == IF pc \in {"fwd", "save"} THEN idx - 1 ELSE idx
        done == {new_mails[j].uidl : j \in {k \in 1..saved : outcomes[k]}}
        left == UidlsAt(new_mails, IF pc = "save" THEN idx + 1 ELSE saved + 1,
                        Len(new_mails))
    IN IF pc \in {"relay", "fwd", "save"} /\ done # {} /\ left # {}
       THEN [done |-> done, left |-> left, rerun |-> FALSE]
       ELSE NoBatch

\* the process is killed (or the host stops): memory, the open session and
\* the uncommitted transaction are lost; the ledger file and maildrop stay
Crash ==
    /\ pc # "stopped"
    /\ Exit
    /\ NoSession
    /\ mails_to_delete' = {}
    /\ txn' = {}
    /\ interrupted' = CutBatch
    /\ settled' = Unsettle(settled)
    /\ UNCHANGED <<cfgVars, envVars, retrieved_mails, ever_ok>>

\* main(): MailForwarder.__init__ (running = True), then process_once,
\* which starts with the sweep, or process_daemon
Start ==
    /\ pc = "stopped"
    /\ running' = TRUE
    /\ \E m \in Modes :
          /\ mode' = m
          /\ pc' = IF m = "once" THEN "sweep" ELSE "loop"
    /\ UNCHANGED <<cfgVars, envVars, retrieved_mails, sessVars, sweepVars,
                   fetchVars, relayVars, histVars>>

\* a handler that raises into the statement that runs, which ends the cycle
signal_handler_raise ==
    /\ pc # "stopped"
    /\ running
    /\ running' = FALSE
    /\ IF pc \in {"loop", "wait", "sleep", "slept"}
       THEN UNCHANGED <<pc, fetchVars, relayVars, sessVars>>
       ELSE /\ pc' = "loop"
            /\ CycleOver
            /\ NoSession
    /\ UNCHANGED <<mode, cfgVars, envVars, retrieved_mails, sweepVars,
                   histVars>>

\* SIGINT / SIGTERM delivered to the process
signal_handler ==
    /\ pc # "stopped"
    /\ running
    /\ running' = FALSE
    /\ UNCHANGED <<mode, pc, cfgVars, envVars, retrieved_mails, sessVars,
                   sweepVars, fetchVars, relayVars, histVars>>

\* ---------------------------------------------------- _delete_old_mails
\* a SELECT that takes the old rows of either flag
SelectOld_any(tbl, t, days) ==
    {u \in UIDLS : /\ tbl[u].present
                   /\ tbl[u].forwarded_at < t - days}

\* a SELECT that takes the rows written at the cutoff as well
SelectOld_inclusive(tbl, t, days) ==
    {u \in UIDLS : /\ tbl[u].present
                   /\ tbl[u].forward_success
                   /\ tbl[u].forwarded_at <= t - days}

\* rows of SELECT ... WHERE forward_success = 1 AND forwarded_at < cutoff_date
\* with cutoff_date = now - retention_days
SelectOld(tbl, t, days) ==
    {u \in UIDLS : /\ tbl[u].present
                   /\ tbl[u].forward_success
                   /\ tbl[u].forwarded_at < t - days}

\* the record of a cut batch as a cycle begins: the cycle that follows the
\* kill is the re-run; the one after it is none any more
Rerun(batch) ==
    IF batch = NoBatch \/ batch.rerun THEN NoBatch
    ELSE [batch EXCEPT !.rerun = TRUE]

\* a retention check that never turns the sweep off
retention_off_never(days) == FALSE

\* lines 552-554: if retention_days == 0: return
retention_off(days) == days = 0

\* a sweep that goes on to the mailbox with whatever the SELECT returned
delete_old_mails_select_always ==
    /\ pc = "sweep"
    /\ interrupted' = Rerun(interrupted)
    /\ IF retention_off(retention_days)
       THEN /\ pc' = "fetch"
            /\ UNCHANGED mails_to_delete
       ELSE /\ pc' = "sw_conn"
            /\ mails_to_delete' = SelectOld(retrieved_mails, now, retention_days)
    /\ UNCHANGED <<mode, running, cfgVars, envVars, retrieved_mails, sessVars,
                   txn, fetchVars, relayVars, ever_ok, settled>>

\* lines 549-573: the retention check and the SELECT
delete_old_mails_select ==
    /\ pc = "sweep"
    /\ interrupted' = Rerun(interrupted)
    /\ IF retention_off(retention_days) \/ SelectOld(retrieved_mails, now, retention_days) = {}
       THEN /\ pc' = "fetch"
            /\ UNCHANGED mails_to_delete
       ELSE /\ pc' = "sw_conn"
            /\ mails_to_delete' = SelectOld(retrieved_mails, now, retention_days)
    /\ UNCHANGED <<mode, running, cfgVars, envVars, retrieved_mails, sessVars,
                   txn, fetchVars, relayVars, ever_ok, settled>>

\* a commit that is never made
Commit_none(tbl, deleted) == tbl

\* the ledger once the DELETEs of a transaction are committed
Commit(tbl, deleted) ==
    [u \in UIDLS |-> IF u \in deleted THEN NoEntry ELSE tbl[u]]

\* a sweep that commits, as it returns, the removal of every selected row
SweepEnd_commit ==
    /\ pc' = "fetch"
    /\ NoSession
    /\ mails_to_delete' = {}
    /\ txn' = {}
    /\ retrieved_mails' = Commit(retrieved_mails, mails_to_delete \cup txn)

\* a sweep whose return ends the cycle
SweepEnd_stop ==
    /\ pc' = "stopped"
    /\ NoSession
    /\ mails_to_delete' = {}
    /\ txn' = {}
    /\ UNCHANGED retrieved_mails

\* the sweep returns, normally or through except Exception / finally: the
\* connection to the ledger is closed (uncommitted DELETEs are rolled back)
\* and the session is gone (DELE marks of a session that did not QUIT lapse)
SweepEnd ==
    /\ pc' = "fetch"
    /\ NoSession
    /\ mails_to_delete' = {}
    /\ txn' = {}
    /\ UNCHANGED retrieved_mails

\* lines 576-595: connect, USER, PASS, UIDL; any of them may raise
delete_old_mails_connect ==
    /\ pc = "sw_conn"
    /\ \E ok \in BOOLEAN :
          IF ok
          THEN /\ server_uidls' = uidl_list(mailbox)
               /\ sessions' = sessions \cup {"sweep"}
               /\ pc' = "sw_loop"
               /\ UNCHANGED <<dele_marks, mails_to_delete, txn,
                              retrieved_mails>>
          ELSE SweepEnd
    /\ UNCHANGED <<mode, running, cfgVars, envVars, fetchVars, relayVars,
                   histVars>>

\* a sequence number that is the first of the listing whatever the UIDL
msg_num_first(map, uidl) == 1

\* line 601: msg_num = server_uidls[uidl]
msg_num(map, uidl) == map[uidl]

\* a loop whose DELETE is committed as it is executed
delete_old_mails_row_autocommit ==
    /\ pc = "sw_loop"
    /\ \E uidl \in mails_to_delete :
          IF uidl \in DOMAIN server_uidls
          THEN \E ok \in BOOLEAN :
                  IF ok
                  THEN /\ dele_marks' = dele_marks \cup {msg_num(server_uidls, uidl)}
                       /\ txn' = txn \cup {uidl}
                       /\ mails_to_delete' = mails_to_delete \ {uidl}
                       /\ retrieved_mails' = Commit(retrieved_mails, {uidl})
                       /\ UNCHANGED <<pc, server_uidls, sessions>>
                  ELSE SweepEnd
          ELSE /\ txn' = txn \cup {uidl}
               /\ mails_to_delete' = mails_to_delete \ {uidl}
               /\ retrieved_mails' = Commit(retrieved_mails, {uidl})
               /\ UNCHANGED <<pc, sessVars>>
    /\ UNCHANGED <<mode, running, cfgVars, envVars, fetchVars, relayVars,
                   histVars>>

\* lines 599-615: one row of mails_to_delete; DELE may raise
delete_old_mails_row ==
    /\ pc = "sw_loop"
    /\ \E uidl \in mails_to_delete :
          IF uidl \in DOMAIN server_uidls
          THEN \E ok \in BOOLEAN :
                  IF ok
                  THEN /\ dele_marks' = dele_marks \cup {msg_num(server_uidls, uidl)}
                       /\ txn' = txn \cup {uidl}
                       /\ mails_to_delete' = mails_to_delete \ {uidl}
                       /\ UNCHANGED <<pc, server_uidls, sessions,
                                      retrieved_mails>>
                  ELSE SweepEnd
          ELSE /\ txn' = txn \cup {uidl}
               /\ mails_to_delete' = mails_to_delete \ {uidl}
               /\ UNCHANGED <<pc, sessVars, retrieved_mails>>
    /\ UNCHANGED <<mode, running, cfgVars, envVars, fetchVars, relayVars,
                   histVars>>

\* line 617: conn.commit()
delete_old_mails_commit ==
    /\ pc = "sw_loop"
    /\ mails_to_delete = {}
    /\ retrieved_mails' = Commit(retrieved_mails, txn)
    /\ txn' = {}
    /\ pc' = "sw_quit"
    /\ UNCHANGED <<mode, running, cfgVars, envVars, sessVars, mails_to_delete,
                   fetchVars, relayVars, histVars>>

\* the maildrop after the UPDATE state of a session that marked `marks`
Expunge(box, map, marks) ==
    [u \in UIDLS |->
        IF u \in DOMAIN map /\ map[u] \in marks THEN NoMail ELSE box[u]]

\* line 618: pop_conn.quit(); the server removes the marked messages when it
\* processes QUIT; a quit that raises may or may not have reached the server
delete_old_mails_quit ==
    /\ pc = "sw_quit"
    /\ \E ok \in BOOLEAN, applied \in BOOLEAN :
          /\ ok => applied
          /\ mailbox' = IF applied
                        THEN Expunge(mailbox, server_uidls, dele_marks)
                        ELSE mailbox
    /\ settled' = IF mailbox' = mailbox THEN settled ELSE "no"
    /\ SweepEnd
    /\ UNCHANGED <<mode, running, cfgVars, now, nextUidl, fetchVars, relayVars,
                   ever_ok, interrupted>>

\* ------------------------------------------------------ _fetch_new_mails
\* a fetch that stays in its loop when it should return
FetchEnd_loop ==
    /\ pc' = "f_loop"
    /\ NoSession

\* the fetch returns, normally or through except Exception (lines 736-741)
FetchEnd ==
    /\ pc' = "relay"
    /\ NoSession

\* a new set that takes every listed UIDL, recorded or not
NewUidls_all(listed, retrieved) == listed

\* line 667: new_uidls = set(server_uidls.keys()) - retrieved_uidls
NewUidls(listed, retrieved) == listed \ retrieved

\* lines 639-667: connect, USER, PASS, UIDL (any of them may raise), then
\* read the ledger and compute new_uidls
fetch_new_mails_connect ==
    /\ pc = "fetch"
    /\ \E ok \in BOOLEAN :
          IF ok
          THEN /\ server_uidls' = uidl_list(mailbox)
               /\ sessions' = sessions \cup {"fetch"}
               /\ new_uidls' = NewUidls(DOMAIN uidl_list(mailbox),
                                        get_retrieved_uidls(retrieved_mails))
               /\ pc' = "f_loop"
               /\ fetch_error' = "none"
               /\ settled' = IF settled = "yes" THEN "yes" ELSE "listed"
               /\ UNCHANGED dele_marks
          ELSE /\ FetchEnd
               /\ fetch_error' = "connect"
               /\ settled' = Unsettle(settled)
               /\ UNCHANGED new_uidls
    /\ UNCHANGED <<mode, running, cfgVars, envVars, retrieved_mails, sweepVars,
                   skipped, retrs, relayVars, ever_ok, interrupted>>

\* a filter that never skips
should_forward_no_cutoff(m, sd, guarded) == "forward"

\* lines 690-716: the start_date filter applied to one parsed message:
\* "forward", "skip", or "compare" when the comparison of a naive mail_date
\* with the offset-aware start_date raises TypeError and nothing catches it.
\* The block does not compile as committed: the if of line 692 stands alone,
\* and the else of line 705 and the except of line 710 have lost the try
\* they belonged to. `guarded` ranges over the two ways to read it: the
\* comparison inside that try (the TypeError is logged and the message is
\* forwarded) or outside any (the TypeError reaches line 738).
should_forward(m, sd, guarded) ==
    LET mail_date == mail_date_of(m)
    IN IF sd # NoDate /\ mail_date # NoDate
       THEN IF mail_date[1] = "naive"
            THEN IF guarded THEN "forward" ELSE "compare"
            ELSE IF mail_date[2] < sd[2] THEN "skip" ELSE "forward"
       ELSE "forward"

\* lines 677-716 on one retrieved message: parse the headers (parseaddr is
\* under no try of its own), then filter; "header" and "compare" are
\* exceptions, which propagate to line 738
fetch_one(m, sd, guarded) ==
    IF ~m.from_ok THEN "header" ELSE should_forward(m, sd, guarded)

\* lines 671-721: one iteration of the loop over new_uidls; RETR may raise
fetch_new_mails_one ==
    /\ pc = "f_loop"
    /\ \E uidl \in new_uidls, retr_ok \in BOOLEAN, guarded \in BOOLEAN :
          LET data == MsgOf(server_uidls, server_uidls[uidl])
              what == IF retr_ok
                      THEN fetch_one(mailbox[data], start_date, guarded)
                      ELSE "retr"
          IN /\ retrs' = retrs \cup {data}
             /\ CASE what = "skip" ->
                       /\ retrieved_mails' =
                             save_retrieved_mail(retrieved_mails, now, uidl,
                                                 data, FALSE)
                       /\ skipped' = skipped \cup {uidl}
                       /\ new_uidls' = new_uidls \ {uidl}
                       /\ UNCHANGED <<pc, sessVars, new_mails, fetch_error,
                                      settled>>
                  [] what = "forward" ->
                       /\ new_mails' = Append(new_mails,
                                              [uidl |-> uidl, data |-> data])
                       /\ new_uidls' = new_uidls \ {uidl}
                       /\ UNCHANGED <<pc, sessVars, retrieved_mails, skipped,
                                      fetch_error, settled>>
                  [] OTHER ->
                       /\ FetchEnd
                       /\ fetch_error' = what
                       /\ settled' = Unsettle(settled)
                       /\ UNCHANGED <<retrieved_mails, new_mails, skipped,
                                      new_uidls>>
    /\ UNCHANGED <<mode, running, cfgVars, envVars, sweepVars, idx, success,
                   outcomes, smtp, ever_ok, interrupted>>

\* lines 723-736: the summary and pop_conn.quit(); a quit that raises is
\* caught at line 738 and new_mails is returned all the same
fetch_new_mails_quit ==
    /\ pc = "f_loop"
    /\ new_uidls = {}
    /\ FetchEnd
    /\ UNCHANGED <<mode, running, cfgVars, envVars, retrieved_mails, sweepVars,
                   fetchVars, relayVars, histVars>>

\* ------------------------------------- process_once / process_daemon
\* arity of the tuples _fetch_new_mails appends (line 717)
TupleLen == 4

\* number of targets the for statement unpacks a tuple into:
\* five in process_once (line 853), four in process_daemon (line 942)
UnpackLen(m) == IF m = "once" THEN 5 ELSE 4

\* lines 853 / 942: the for statement takes the next tuple of new_mails,
\* or the loop is over (lines 872-920 / 946-953)
relay_next ==
    /\ pc = "relay"
    /\ IF idx < Len(new_mails)
       THEN IF UnpackLen(mode) # TupleLen
            THEN /\ Exit          \* ValueError, uncaught in process_once
                 /\ settled' = Unsettle(settled)
            ELSE /\ pc' = "fwd"
                 /\ idx' = idx + 1
                 /\ smtp' = NoRelay
                 /\ UNCHANGED <<mode, running, fetchVars, new_mails, success,
                                outcomes, settled>>
       ELSE /\ settled' = IF settled = "listed" THEN "yes" ELSE settled
            /\ IF mode = "once"
               THEN Exit
               ELSE /\ pc' = IF running THEN "wait" ELSE "loop"
                    /\ CycleOver
                    /\ UNCHANGED <<mode, running>>
    /\ UNCHANGED <<cfgVars, envVars, retrieved_mails, sessVars, sweepVars,
                   ever_ok, interrupted>>

\* lines 771-832: _forward_mail returns True or False, never raises
forward_mail ==
    /\ pc = "fwd"
    /\ \E ok \in BOOLEAN :
          /\ success' = ok
          /\ outcomes' = Append(outcomes, ok)
    /\ pc' = "save"
    /\ UNCHANGED <<mode, running, cfgVars, envVars, retrieved_mails, sessVars,
                   sweepVars, fetchVars, new_mails, idx, smtp, histVars>>

\* lines 855 / 944: the ledger write that follows the submit
relay_save ==
    /\ pc = "save"
    /\ retrieved_mails' = save_retrieved_mail(retrieved_mails, now,
                              new_mails[idx].uidl, new_mails[idx].data, success)
    /\ ever_ok' = IF success THEN ever_ok \cup {new_mails[idx].uidl} ELSE ever_ok
    /\ pc' = "relay"
    /\ UNCHANGED <<mode, running, cfgVars, envVars, sessVars, sweepVars,
                   fetchVars, relayVars, interrupted, settled>>

\* a loop whose while statement does not test the flag
process_daemon_loop_forever ==
    /\ pc = "loop"
    /\ pc' = "sweep"
    /\ UNCHANGED <<mode, running, fetchVars, relayVars>>
    /\ UNCHANGED <<cfgVars, envVars, retrieved_mails, sessVars, sweepVars,
                   histVars>>

\* line 933: while self.running
process_daemon_loop ==
    /\ pc = "loop"
    /\ IF running
       THEN /\ pc' = "sweep"
            /\ UNCHANGED <<mode, running, fetchVars, relayVars>>
       ELSE Exit
    /\ UNCHANGED <<cfgVars, envVars, retrieved_mails, sessVars, sweepVars,
                   histVars>>

\* lines 952-953 / 958-959: after the test of self.running that found it
\* set, the wait is logged and time.sleep(interval) is called
process_daemon_sleep ==
    /\ pc = "wait"
    /\ pc' = "sleep"
    /\ UNCHANGED <<mode, running, cfgVars, envVars, retrieved_mails, sessVars,
                   sweepVars, fetchVars, relayVars, histVars>>

\* the interval of the time.sleep(interval) call in progress is over
\* (lines 953 / 959); a signal handler that returns does not end the call
\* (PEP 475: the sleep is resumed for the time that is left)
interval_elapses ==
    /\ pc = "sleep"
    /\ pc' = "slept"
    /\ UNCHANGED <<mode, running, cfgVars, envVars, retrieved_mails, sessVars,
                   sweepVars, fetchVars, relayVars, histVars>>

\* lines 953 / 959: time.sleep(interval) returns
sleep_return ==
    /\ pc = "slept"
    /\ pc' = "loop"
    /\ UNCHANGED <<mode, running, cfgVars, envVars, retrieved_mails, sessVars,
                   sweepVars, fetchVars, relayVars, histVars>>

Next ==
    \/ Arrive
    \/ Remove
    \/ Tick
    \/ Crash
    \/ Start
    \/ signal_handler
    \/ delete_old_mails_select
    \/ delete_old_mails_connect
    \/ delete_old_mails_row
    \/ delete_old_mails_commit
    \/ delete_old_mails_quit
    \/ fetch_new_mails_connect
    \/ fetch_new_mails_one
    \/ fetch_new_mails_quit
    \/ relay_next
    \/ forward_mail
    \/ relay_save
    \/ process_daemon_loop
    \/ process_daemon_sleep
    \/ interval_elapses
    \/ sleep_return

\* the life cycle of the program: runs, cycles, kills, mail arriving
Spec == Init /\ [][Next]_vars

\* ------------------------------------------- one reconciliation, any input
\* a ledger row as a past cycle left it
RowOf(u, ok) ==
    [present |-> TRUE, forward_success |-> ok, forwarded_at |-> 0, who |-> u]

\* process_once or process_daemon is about to call _fetch_new_mails, on any maildrop of
\* MailKinds and any ledger
InitReconcile ==
    /\ mode \in Modes
    /\ start_date \in StartDates
    /\ retention_days = 0
    /\ pop_before_smtp = FALSE
    /\ config_file = "ok"
    /\ arg_start_date = NoArg
    /\ db_ready = TRUE
    /\ running = TRUE
    /\ pc = "fetch"
    /\ now = 0
    /\ mailbox \in [UIDLS -> MailKinds \cup {NoMail}]
    /\ \E rows \in [UIDLS -> {"none", "ok", "failed"}] :
          retrieved_mails = [u \in UIDLS |->
                                IF rows[u] = "none" THEN NoEntry
                                ELSE RowOf(u, rows[u] = "ok")]
    /\ nextUidl = MaxUidl + 1
    /\ Idle
    /\ ever_ok = {u \in UIDLS : retrieved_mails[u].present
                                 /\ retrieved_mails[u].forward_success}
    /\ interrupted = NoBatch
    /\ settled = "no"

NextReconcile ==
    \/ fetch_new_mails_connect
    \/ fetch_new_mails_one
    \/ fetch_new_mails_quit
    \/ relay_next
    \/ forward_mail
    \/ relay_save

SpecReconcile == InitReconcile /\ [][NextReconcile]_vars

\* --------------------------------------------- one sweep, any ledger
\* a ledger row written age days ago
RowAged(u, ok, age) ==
    [present |-> TRUE, forward_success |-> ok, forwarded_at |-> 0 - age,
     who |-> u]

\* the rows a ledger can hold for one UIDL: none, or a row of either flag
\* and of any age that is told apart
LedgerRows(u) ==
    {NoEntry} \cup {RowAged(u, ok, age) : ok \in BOOLEAN, age \in 0..MaxAge}

\* mail_retention_days is read from the configuration as it stands
\* (line 549): a negative window is taken too
SweepRetentions == RetentionChoices \cup {0 - 1}

\* the process is about to be started on any ledger and any maildrop
InitSweep ==
    /\ mode = "once"
    /\ start_date = NoDate
    /\ retention_days \in SweepRetentions
    /\ pop_before_smtp = FALSE
    /\ config_file = "ok"
    /\ arg_start_date = NoArg
    /\ db_ready = TRUE
    /\ running = FALSE
    /\ pc = "stopped"
    /\ now = 0
    /\ mailbox \in [UIDLS -> ArrivalKinds \cup {NoMail}]
    /\ retrieved_mails \in [UIDLS -> UNION {LedgerRows(u) : u \in UIDLS}]
    /\ \A u \in UIDLS : retrieved_mails[u] \in LedgerRows(u)
    /\ nextUidl = MaxUidl + 1
    /\ Idle
    /\ ever_ok = {u \in UIDLS : retrieved_mails[u].present
                                 /\ retrieved_mails[u].forward_success}
    /\ interrupted = NoBatch
    /\ settled = "no"

\* main() up to the first call of _fetch_new_mails: the sweep of the first
\* cycle and the opening of the reconciliation that follows it
NextSweep ==
    \/ Start
    \/ process_daemon_loop
    \/ delete_old_mails_select
    \/ delete_old_mails_connect
    \/ delete_old_mails_row
    \/ delete_old_mails_commit
    \/ delete_old_mails_quit
    \/ fetch_new_mails_connect

SpecSweep == InitSweep /\ [][NextSweep]_vars

\* ------------------------------------------- _forward_mail, step by step
\* the bytes of message u as the maildrop holds them: lines that each end
\* with CRLF
Stored(u) == [of |-> u, eol |-> "CRLF", last_eol |-> TRUE]

\* a join of the RETR lines with a bare line feed
mail_data_lf(u) == [of |-> u, eol |-> "LF", last_eol |-> FALSE]

\* line 674: mail_data = b'\r\n'.join(lines), lines being the lines of the
\* RETR response without their line ends: the last line gets no CRLF
mail_data(u) == [of |-> u, eol |-> "CRLF", last_eol |-> FALSE]

\* what the relay receives for the bytes given to sendmail: a byte string
\* is sent as it is, and DATA ends it with CRLF when it does not end so
Delivered(bytes) == [bytes EXCEPT !.last_eol = TRUE]

\* config['smtp']['username'] and config['forward']['to_address']
smtp_username == "smtp.username"
to_address == "forward.to_address"

\* lines 812-816: the arguments of smtp_conn.sendmail
Submit(from_addr, to_addrs, msg, accepted) ==
    [present |-> TRUE, from_addr |-> from_addr, to_addrs |-> to_addrs,
     msg |-> msg, accepted |-> accepted]

\* _forward_mail returns ok (lines 825 / 832); its connections go with it
ForwardReturns(ok) ==
    /\ success' = ok
    /\ outcomes' = Append(outcomes, ok)
    /\ pc' = "save"

\* a pre-authentication whose failure is logged and not raised again
authenticate_pop_before_smtp_lenient ==
    /\ pc = "fwd"
    /\ pop_before_smtp
    /\ \E ok \in BOOLEAN :
          IF ok
          THEN /\ sessions' = sessions \cup {"preauth"}
               /\ pc' = "pa_quit"
          ELSE /\ pc' = "smtp_conn"
               /\ UNCHANGED sessions
    /\ UNCHANGED <<mode, running, cfgVars, envVars, retrieved_mails,
                   server_uidls, dele_marks, sweepVars, fetchVars, new_mails,
                   idx, success, outcomes, smtp, histVars>>

\* lines 788-789, 745-761: POP before SMTP is enabled; connect, USER and
\* PASS of the session, any of which may raise (line 769 re-raises)
authenticate_pop_before_smtp ==
    /\ pc = "fwd"
    /\ pop_before_smtp
    /\ \E ok \in BOOLEAN :
          IF ok
          THEN /\ sessions' = sessions \cup {"preauth"}
               /\ pc' = "pa_quit"
               /\ UNCHANGED <<success, outcomes>>
          ELSE /\ ForwardReturns(FALSE)
               /\ UNCHANGED sessions
    /\ UNCHANGED <<mode, running, cfgVars, envVars, retrieved_mails,
                   server_uidls, dele_marks, sweepVars, fetchVars, new_mails,
                   idx, smtp, histVars>>

\* line 763: pop_conn.quit() of the pre-authentication, which may raise
authenticate_pop_before_smtp_quit ==
    /\ pc = "pa_quit"
    /\ sessions' = sessions \ {"preauth"}
    /\ \E ok \in BOOLEAN :
          IF ok
          THEN /\ pc' = "smtp_conn"
               /\ UNCHANGED <<success, outcomes>>
          ELSE ForwardReturns(FALSE)
    /\ UNCHANGED <<mode, running, cfgVars, envVars, retrieved_mails,
                   server_uidls, dele_marks, sweepVars, fetchVars, new_mails,
                   idx, smtp, histVars>>

\* lines 792-809: the relay connection, STARTTLS and login; any may raise
forward_mail_connect ==
    /\ \/ pc = "fwd" /\ ~pop_before_smtp
       \/ pc = "smtp_conn"
    /\ \E ok \in BOOLEAN :
          IF ok
          THEN /\ smtp' = [open |-> TRUE, dialed |-> TRUE, sent |-> NoSubmit]
               /\ pc' = "sendmail"
               /\ UNCHANGED <<success, outcomes>>
          ELSE /\ smtp' = [smtp EXCEPT !.dialed = TRUE]
               /\ ForwardReturns(FALSE)
    /\ UNCHANGED <<mode, running, cfgVars, envVars, retrieved_mails, sessVars,
                   sweepVars, fetchVars, new_mails, idx, histVars>>

\* lines 812-816: smtp_conn.sendmail(username, to_address, mail_data); the
\* relay accepts the message or sendmail raises
forward_mail_sendmail ==
    /\ pc = "sendmail"
    /\ \E ok \in BOOLEAN :
          /\ smtp' = [open |-> ok, dialed |-> TRUE,
                      sent |-> Submit(smtp_username, to_address,
                                      mail_data(new_mails[idx].data), ok)]
          /\ IF ok
             THEN /\ pc' = "smtp_quit"
                  /\ UNCHANGED <<success, outcomes>>
             ELSE ForwardReturns(FALSE)
    /\ UNCHANGED <<mode, running, cfgVars, envVars, retrieved_mails, sessVars,
                   sweepVars, fetchVars, new_mails, idx, histVars>>

\* lines 818-832: smtp_conn.quit(), then return True; a quit that raises
\* makes the call return False
forward_mail_quit ==
    /\ pc = "smtp_quit"
    /\ smtp' = [smtp EXCEPT !.open = FALSE]
    /\ \E ok \in BOOLEAN : ForwardReturns(ok)
    /\ UNCHANGED <<mode, running, cfgVars, envVars, retrieved_mails, sessVars,
                   sweepVars, fetchVars, new_mails, idx, histVars>>

\* an except clause that ends the process
process_daemon_except_exit ==
    /\ mode = "daemon"
    /\ pc \in {"sweep", "save"}
    /\ Exit
    /\ settled' = Unsettle(settled)
    /\ UNCHANGED <<cfgVars, envVars, retrieved_mails, sessVars, sweepVars,
                   ever_ok, interrupted>>

\* ------------------------------------------------ process_daemon, any run
\* lines 955-959: an exception leaves the cycle: the SELECT of the sweep
\* (lines 560-568, before its try) or the ledger write of the relay loop
\* (line 944) raises sqlite3.Error; it is logged, and the loop sleeps if
\* the process is still to run
process_daemon_except ==
    /\ mode = "daemon"
    /\ pc \in {"sweep", "save"}
    /\ pc' = IF running THEN "wait" ELSE "loop"
    /\ CycleOver
    /\ settled' = Unsettle(settled)
    /\ UNCHANGED <<mode, running, cfgVars, envVars, retrieved_mails, sessVars,
                   sweepVars, ever_ok, interrupted>>

\* process_daemon is called on any ledger and any maildrop
InitDaemon ==
    /\ mode = "daemon"
    /\ start_date = NoDate
    /\ retention_days \in RetentionChoices
    /\ pop_before_smtp \in BOOLEAN
    /\ config_file = "ok"
    /\ arg_start_date = NoArg
    /\ db_ready = TRUE
    /\ running = TRUE
    /\ pc = "loop"
    /\ now = 0
    /\ mailbox \in [UIDLS -> ArrivalKinds \cup {NoMail}]
    /\ retrieved_mails \in [UIDLS -> UNION {LedgerRows(u) : u \in UIDLS}]
    /\ \A u \in UIDLS : retrieved_mails[u] \in LedgerRows(u)
    /\ nextUidl = MaxUidl + 1
    /\ Idle
    /\ ever_ok = {u \in UIDLS : retrieved_mails[u].present
                                 /\ retrieved_mails[u].forward_success}
    /\ interrupted = NoBatch
    /\ settled = "no"

NextDaemon ==
    \/ signal_handler
    \/ process_daemon_loop
    \/ delete_old_mails_select
    \/ delete_old_mails_connect
    \/ delete_old_mails_row
    \/ delete_old_mails_commit
    \/ delete_old_mails_quit
    \/ fetch_new_mails_connect
    \/ fetch_new_mails_one
    \/ fetch_new_mails_quit
    \/ relay_next
    \/ authenticate_pop_before_smtp
    \/ authenticate_pop_before_smtp_quit
    \/ forward_mail_connect
    \/ forward_mail_sendmail
    \/ forward_mail_quit
    \/ relay_save
    \/ process_daemon_except
    \/ process_daemon_sleep
    \/ interval_elapses
    \/ sleep_return

\* the loop of process_daemon with its signals, from its first cycle on
SpecDaemon == InitDaemon /\ [][NextDaemon]_vars

\* --------------------------------------- the ledger table, any writes
\* In this specification retrieved_mails is the table itself, a set of
\* rows, so that the PRIMARY KEY of line 496 is something a write can break;
\* everywhere else it is the function TableOf gives.
Senders == {"a@example", "b@example"}
Subjects == {"s", "t"}

\* a row of the table (lines 496-500)
Row(uidl, from_addr, subject, ok, t) ==
    [uidl |-> uidl, from_addr |-> from_addr, subject |-> subject,
     forward_success |-> ok, forwarded_at |-> t]

\* INSERT without conflict resolution
insert_plain(rows, row) == rows \cup {row}

\* lines 539-543: INSERT OR REPLACE INTO retrieved_mails under uidl TEXT
\* PRIMARY KEY: the rows that conflict on uidl are deleted, then the row is
\* inserted
insert_or_replace(rows, row) ==
    {r \in rows : r.uidl # row.uidl} \cup {row}

\* the table as the rest of the model reads it: UIDL to its row, if any
TableOf(rows) ==
    [u \in UIDLS |->
        IF \E r \in rows : r.uidl = u
        THEN LET r == CHOOSE r \in rows : r.uidl = u
             IN [present |-> TRUE, forward_success |-> r.forward_success,
                 forwarded_at |-> r.forwarded_at,
                 who |-> <<r.from_addr, r.subject>>]
        ELSE NoEntry]

\* _init_database has created an empty table
InitLedger ==
    /\ mode = "once"
    /\ start_date = NoDate
    /\ retention_days = 0
    /\ pop_before_smtp = FALSE
    /\ config_file = "ok"
    /\ arg_start_date = NoArg
    /\ db_ready = TRUE
    /\ running = TRUE
    /\ pc = "save"
    /\ now = 0
    /\ mailbox = [u \in UIDLS |-> NoMail]
    /\ retrieved_mails = {}
    /\ nextUidl = 1
    /\ Idle
    /\ ever_ok = {}
    /\ interrupted = NoBatch
    /\ settled = "no"

\* lines 526-545: a call _save_retrieved_mail(uidl, from_addr, subject,
\* forward_success) at local time now; new_mails keeps the arguments of
\* the call, the time of the write and whether uidl had a row; idx counts
\* the calls; the clock may move on before the next call
save_retrieved_mail_call ==
    /\ pc = "save"
    /\ idx <= MaxUidl
    /\ \E uidl \in UIDLS, from_addr \in Senders, subject \in Subjects,
          ok \in BOOLEAN :
          /\ retrieved_mails' =
                insert_or_replace(retrieved_mails,
                                  Row(uidl, from_addr, subject, ok, now))
          /\ new_mails' =
                <<[row |-> Row(uidl, from_addr, subject, ok, now),
                   replaced |-> \E r \in retrieved_mails : r.uidl = uidl]>>
    /\ idx' = idx + 1
    /\ \E dt \in {0, 1} :
          /\ now + dt <= MaxAge
          /\ now' = now + dt
    /\ UNCHANGED <<procVars, cfgVars, mailbox, nextUidl, sessVars, sweepVars,
                   fetchVars, success, outcomes, smtp, histVars>>

NextLedger == save_retrieved_mail_call

SpecLedger == InitLedger /\ [][NextLedger]_vars

\* ------------------------------------------------------ steps and sets
\* the step in which _forward_mail is called for uidl (lines 854 / 943)
Submits(u) ==
    /\ pc = "fwd"
    /\ pc' = "save"
    /\ new_mails[idx].uidl = u

\* the step in which RETR is issued for uidl (line 673)
Retrieves(u) ==
    /\ pc = "f_loop"
    /\ u \in retrs' \ retrs

\* uidl is in the list _fetch_new_mails has built
Selected(u) == \E j \in 1..Len(new_mails) : new_mails[j].uidl = u

\* the ledger holds a row for uidl whose forward_success is 0
FailedRow(u) ==
    /\ retrieved_mails[u].present
    /\ ~retrieved_mails[u].forward_success

\* ---------------------------------------------------------------- claims
\* C1: once a success=true row has been written for a UIDL, no later step
\* submits that UIDL to the relay, whatever fails in the sweep or the fetch.
C1_DurableSuppression ==
    [][\A u \in UIDLS : u \in ever_ok => ~Submits(u)]_vars

\* C2: a UIDL that is on the server list and has a ledger row (success true
\* or false) is outside the new set: no RETR and no submit is issued for it;
\* and while every listed UIDL has a row, the fetch has nothing new and
\* returns an empty list.
C2_KnownExcluded ==
    /\ [][\A u \in UIDLS :
             retrieved_mails[u].present => ~Retrieves(u) /\ ~Submits(u)]_vars
    /\ [](pc = "f_loop"
          /\ (\A u \in DOMAIN server_uidls : retrieved_mails[u].present)
             => new_uidls = {} /\ new_mails = <<>>)

\* C2 witness: a fetch whose server list holds a UIDL recorded as relayed and
\* a UIDL recorded as failed by earlier cycles, and nothing else
C2_Witness ==
    /\ pc = "f_loop"
    /\ skipped = {}
    /\ new_uidls = {}
    /\ \E u, v \in DOMAIN server_uidls :
          /\ retrieved_mails[u].present /\ retrieved_mails[u].forward_success
          /\ FailedRow(v)

\* C3: the save that follows a failed submit writes a success=false row for
\* the UIDL; the program never removes or rewrites such a row, and no step
\* submits a UIDL while its row says success=false.
C3_FailedNotRetried ==
    [][\A u \in UIDLS :
          /\ (pc = "save" /\ pc' = "relay" /\ ~success /\ new_mails[idx].uidl = u
                => retrieved_mails'[u].present
                   /\ ~retrieved_mails'[u].forward_success)
          /\ (FailedRow(u)
                => /\ ~Submits(u)
                   /\ retrieved_mails'[u].present
                   /\ ~retrieved_mails'[u].forward_success)]_vars

\* C3 witness: with no cutoff configured (so the row comes from a failed
\* submit), a later cycle whose row has outlived the retention window lists
\* the UIDL and has nothing new
C3_Witness ==
    /\ start_date = NoDate
    /\ retention_days > 0
    /\ pc = "f_loop"
    /\ new_uidls = {}
    /\ new_mails = <<>>
    /\ \E u \in DOMAIN server_uidls :
          /\ FailedRow(u)
          /\ retrieved_mails[u].forwarded_at < now - retention_days

\* the rows the relay loop has written so far
SavedCount == IF pc \in {"fwd", "save"} THEN idx - 1 ELSE idx

RerunOver ==
    /\ interrupted.rerun
    /\ pc \in {"wait", "sleep", "loop", "stopped"}

\* C5: when a kill cuts a relay loop short after A was relayed and recorded
\* and before B was taken up, the next cycle, if its fetch meets no error,
\* ends with B relayed and recorded (as long as B is still on the server),
\* and no step of it submits A.
C5_CrashSafety ==
    /\ [](RerunOver /\ fetch_error = "none"
             => \A b \in interrupted.left :
                   mailbox[b].present => retrieved_mails[b].present)
    /\ [][interrupted.rerun
             => \A a \in interrupted.done : ~Submits(a)]_vars

\* C6: after a reconciliation that ran to its end without an error, and with
\* the maildrop unchanged since, no step submits a message to the relay.
C6_Idempotence ==
    [][settled = "yes" => \A u \in UIDLS : ~Submits(u)]_vars

\* _fetch_new_mails has returned and the relay loop has not begun
FetchDone ==
    /\ pc = "relay"
    /\ idx = 0

\* the new set of the fetch that is running or has just returned: the listed
\* UIDLs with no row, or with the row this fetch wrote when it skipped them
NewSet ==
    {u \in UIDLS : /\ mailbox[u].present
                   /\ \/ ~retrieved_mails[u].present
                      \/ u \in skipped}

\* C7: when the fetch has returned (with no error, or with the error of the
\* date comparison), a new message with a parsed Date is in the returned list
\* iff no cutoff is configured or its date is not before the cutoff.
C7_CutoffDecision ==
    FetchDone /\ fetch_error \in {"none", "compare"} =>
       \A u \in NewSet :
          mailbox[u].date[1] \in {"aware", "naive"} =>
             (Selected(u) <=> \/ start_date = NoDate
                              \/ mailbox[u].date[2] >= start_date[2])

\* a message on the server that the configured cutoff filters out
Filtered(u) ==
    /\ start_date # NoDate
    /\ mailbox[u].present
    /\ mailbox[u].from_ok
    /\ mailbox[u].date[1] = "aware"
    /\ mailbox[u].date[2] < start_date[2]

\* C8: the fetch step that takes up a message the cutoff filters out writes a
\* success=false row for it, counts it as skipped and does not put it in the
\* list to relay; such a message is never in that list, never submitted and
\* never recorded as relayed; once it has its row, the row stays and the
\* message is in no new set again.
C8_FilteredRecorded ==
    /\ [][\A u \in UIDLS :
             /\ (Filtered(u) /\ pc = "f_loop" /\ pc' = "f_loop"
                  /\ u \in new_uidls /\ u \notin new_uidls'
                   => /\ retrieved_mails'[u].present
                      /\ ~retrieved_mails'[u].forward_success
                      /\ u \in skipped'
                      /\ new_mails' = new_mails)
             /\ (Filtered(u) => ~Submits(u))
             /\ (Filtered(u) /\ retrieved_mails[u].present
                   => retrieved_mails'[u].present /\ u \notin new_uidls')]_vars
    /\ [](\A u \in UIDLS :
             Filtered(u) => /\ ~Selected(u)
                            /\ u \notin ever_ok
                            /\ (retrieved_mails[u].present => u \notin new_uidls))

\* C8 witness: a later cycle lists a message that an earlier cycle filtered
\* out and recorded, and finds nothing new
C8_Witness ==
    /\ pc = "f_loop"
    /\ skipped = {}
    /\ new_uidls = {}
    /\ new_mails = <<>>
    /\ \E u \in DOMAIN server_uidls : Filtered(u) /\ FailedRow(u)

\* a message on the server whose Date header is absent or unparsable and
\* whose other headers parse
Undated(u) ==
    /\ mailbox[u].present
    /\ mailbox[u].from_ok
    /\ mailbox[u].date[1] \in {"missing", "invalid"}

\* C9: with a cutoff configured, a new message whose Date header is missing
\* or unparsable is, once the fetch loop has passed it, in the list to relay;
\* it is not counted as skipped and the fetch writes no row for it.
C9_FailOpen ==
    \A u \in UIDLS :
       start_date # NoDate /\ Undated(u) =>
          /\ u \notin skipped
          /\ ((pc = "f_loop" \/ FetchDone) /\ u \in NewSet
                /\ u \in DOMAIN server_uidls /\ u \notin new_uidls
                => Selected(u) /\ ~retrieved_mails[u].present)

\* C9 witness: a fetch under a cutoff has returned a list that holds a
\* message with an unparsable Date and one with no Date header
C9_Witness ==
    /\ FetchDone
    /\ start_date # NoDate
    /\ \E u, v \in UIDLS :
          /\ Undated(u) /\ mailbox[u].date[1] = "invalid" /\ Selected(u)
          /\ Undated(v) /\ mailbox[v].date[1] = "missing" /\ Selected(v)

\* C10: unless the connection or a RETR fails, or the date comparison
\* raises, the fetch returns with every message of the new set fetched and
\* decided, whatever the headers of the messages are.
C10_ParseNeverPropagates ==
    FetchDone /\ fetch_error \notin {"connect", "retr", "compare"} =>
       new_uidls = {}

\* ------------------------------------------------------------------ C11
\* the step gives uidl a ledger row, or changes the flag of its row
Flagged(u) ==
    /\ retrieved_mails'[u].present
    /\ \/ ~retrieved_mails[u].present
       \/ retrieved_mails'[u].forward_success
             # retrieved_mails[u].forward_success

\* C11: the success flag of a ledger row is what the relay submit for its
\* UIDL returned: a row gets or changes its flag only in the write that
\* follows the submit of that UIDL (lines 854-855 / 943-944), and then the
\* flag is the value _forward_mail returned, or in the write of the cutoff
\* filter (line 704), and then the flag is false
C11_FlagIsSubmitResult ==
    [][\A u \in UIDLS :
          Flagged(u) =>
             \/ /\ pc = "save"
                /\ new_mails[idx].uidl = u
                /\ Len(outcomes) = idx
                /\ retrieved_mails'[u].forward_success = outcomes[idx]
             \/ /\ pc = "f_loop"
                /\ u \in skipped' \ skipped
                /\ ~retrieved_mails'[u].forward_success]_vars

\* a cycle has written a true row after a submit that succeeded, a false row
\* after a submit that failed or a false row for a filtered message
C11_Witness ==
    /\ pc = "relay"
    /\ idx > 0
    /\ Len(outcomes) = idx
    /\ \E j \in 1..idx :
          /\ outcomes[j]
          /\ retrieved_mails[new_mails[j].uidl].present
          /\ retrieved_mails[new_mails[j].uidl].forward_success
    /\ \/ \E j \in 1..idx :
             /\ ~outcomes[j]
             /\ retrieved_mails[new_mails[j].uidl].present
             /\ ~retrieved_mails[new_mails[j].uidl].forward_success
       \/ \E u \in skipped :
             /\ retrieved_mails[u].present
             /\ ~retrieved_mails[u].forward_success

\* ------------------------------------------------------------------ C12
\* C12: after any sequence of ledger writes the table holds at most one row
\* per UIDL, and the row of the UIDL written last carries the sender, the
\* subject, the success flag and the timestamp of that write; a write leaves
\* the rows of the other UIDLs alone, and on the table read as a function of
\* the UIDL it is the update save_retrieved_mail makes
C12_Upsert ==
    /\ [](/\ \A u \in UIDLS :
               Cardinality({r \in retrieved_mails : r.uidl = u}) <= 1
          /\ new_mails # <<>> =>
               {r \in retrieved_mails : r.uidl = new_mails[1].row.uidl}
                  = {new_mails[1].row})
    /\ [][/\ \A r \in retrieved_mails :
               r.uidl # new_mails'[1].row.uidl => r \in retrieved_mails'
          /\ TableOf(retrieved_mails')
                = save_retrieved_mail(TableOf(retrieved_mails),
                     new_mails'[1].row.forwarded_at,
                     new_mails'[1].row.uidl,
                     <<new_mails'[1].row.from_addr,
                       new_mails'[1].row.subject>>,
                     new_mails'[1].row.forward_success)]_vars

\* the last write was for a UIDL that had a row, and the table holds another
\* UIDL's row as well
C12_Witness ==
    /\ new_mails # <<>>
    /\ new_mails[1].replaced
    /\ \E r \in retrieved_mails : r.uidl # new_mails[1].row.uidl

\* ------------------------------------------------------------------ C13
\* uidl has a row with forward_success = 1 that was written more than
\* retention_days before now
Due(u) ==
    /\ retrieved_mails[u].present
    /\ retrieved_mails[u].forward_success
    /\ retrieved_mails[u].forwarded_at + retention_days < now

\* C13: with a retention window other than zero the sweep selects exactly
\* the rows that have success = true and a forwarded-at strictly earlier
\* than now minus the window: a row with success = false is not selected
\* whatever its age, nor is a success = true row that is not older than the
\* window; the sweep goes on to the mailbox only when a row is selected
C13_RetentionSelection ==
    [][(pc = "sweep" /\ retention_days # 0) =>
          /\ mails_to_delete' = {u \in UIDLS : Due(u)}
          /\ \A u \in UIDLS :
                (retrieved_mails[u].present
                    /\ ~retrieved_mails[u].forward_success)
                   => u \notin mails_to_delete'
          /\ \A u \in UIDLS :
                (retrieved_mails[u].present
                    /\ retrieved_mails[u].forwarded_at >= now - retention_days)
                   => u \notin mails_to_delete'
          /\ pc' = IF mails_to_delete' = {} THEN "fetch" ELSE "sw_conn"]_vars

\* the sweep has selected a row and left out a success = false row of the
\* greatest age
C13_Witness ==
    /\ pc = "sw_conn"
    /\ retention_days # 0
    /\ mails_to_delete # {}
    /\ \E v \in UIDLS \ mails_to_delete :
          /\ retrieved_mails[v].present
          /\ ~retrieved_mails[v].forward_success
          /\ retrieved_mails[v].forwarded_at = 0 - MaxAge

\* ------------------------------------------------------------------ C14
\* C14: over any sequence of runs, cycles, kills and failures a ledger row
\* goes away only in the commit of the retention sweep (line 617), with a
\* window other than zero, and only if it has success = true and was written
\* before the cutoff of that sweep; a row with success = false is removed by
\* no step
C14_RemovedOnlyBySweep ==
    [][\A u \in UIDLS :
          (retrieved_mails[u].present /\ ~retrieved_mails'[u].present) =>
             /\ pc = "sw_loop"
             /\ pc' = "sw_quit"
             /\ retention_days # 0
             /\ u \in txn
             /\ retrieved_mails[u].forward_success
             /\ Due(u)]_vars

\* a sweep has committed the removal of a relayed row while a success =
\* false row as old as the window allows is still there
C14_Witness ==
    /\ pc = "sw_quit"
    /\ \E u \in ever_ok : ~retrieved_mails[u].present
    /\ \E v \in UIDLS :
          /\ retrieved_mails[v].present
          /\ ~retrieved_mails[v].forward_success
          /\ retrieved_mails[v].forwarded_at + retention_days < now

\* ------------------------------------------------------------------ C15
\* the UIDLs of the messages the step marks with DELE
Deles ==
    {MsgOf(server_uidls, n) : n \in dele_marks' \ dele_marks}

\* the UIDLs of the messages the step takes out of the maildrop
Expunged ==
    {u \in UIDLS : mailbox[u].present /\ ~mailbox'[u].present}

\* C15: the program issues DELE only in the sweep, only for a message of the
\* session's listing, and only when the ledger has at that time a row for
\* the UIDL of that message with success = true and a forwarded-at older
\* than the cutoff; a message that leaves the maildrop through a session of
\* the program is one whose relay was recorded as successful: never one that
\* failed, was filtered or has not been seen
C15_DeleteOnlyForwarded ==
    [][/\ dele_marks' \ dele_marks # {} =>
             /\ pc = "sw_loop"
             /\ dele_marks' \ dele_marks \subseteq
                   {server_uidls[u] : u \in DOMAIN server_uidls}
             /\ \A u \in Deles :
                   /\ mailbox[u].present
                   /\ retrieved_mails[u].present
                   /\ retrieved_mails[u].forward_success
                   /\ Due(u)
                   /\ u \in ever_ok
       /\ SessionOpen =>
             /\ Expunged \subseteq ever_ok
             /\ Expunged \subseteq
                   {MsgOf(server_uidls, n) : n \in dele_marks}]_vars

\* a sweep has marked the message of a relayed UIDL with DELE while the
\* maildrop holds a message whose relay failed and whose row is old
C15_Witness ==
    /\ pc = "sw_loop"
    /\ dele_marks # {}
    /\ \E v \in UIDLS :
          /\ mailbox[v].present
          /\ retrieved_mails[v].present
          /\ ~retrieved_mails[v].forward_success
          /\ retrieved_mails[v].forwarded_at + retention_days < now
          /\ server_uidls[v] \notin dele_marks

\* ------------------------------------------------------------------ C16
\* the rows the SELECT of the sweep in progress took
Selection == txn \cup mails_to_delete

\* C16: in a sweep whose session and listing succeed, the rows visited so
\* far and those still to visit are the selected rows; visiting a selected
\* UIDL issues DELE with the sequence number the listing gives it when the
\* listing has it and issues no DELE otherwise, and in both cases the row is
\* deleted in the transaction; the commit that follows the last row removes
\* exactly the selected rows and leaves every other row as it was
C16_SweepEffect ==
    /\ [](pc = "sw_loop" =>
             /\ Selection = {u \in UIDLS : Due(u)}
             /\ txn \cap mails_to_delete = {}
             /\ dele_marks = {server_uidls[u] :
                                 u \in txn \cap DOMAIN server_uidls})
    /\ [][(pc = "sw_loop" /\ pc' = "sw_loop") =>
             \E u \in mails_to_delete :
                /\ mails_to_delete' = mails_to_delete \ {u}
                /\ txn' = txn \cup {u}
                /\ dele_marks' =
                      IF u \in DOMAIN server_uidls
                      THEN dele_marks \cup {server_uidls[u]}
                      ELSE dele_marks]_vars
    /\ [][(pc = "sw_loop" /\ pc' = "sw_quit") =>
             /\ mails_to_delete = {}
             /\ \A u \in UIDLS :
                   retrieved_mails'[u] =
                      IF Due(u) THEN NoEntry ELSE retrieved_mails[u]
             /\ UNCHANGED <<dele_marks, server_uidls, mailbox>>]_vars

\* a sweep has committed after a DELE for a selected UIDL of the listing
\* and the visit of a selected UIDL the listing does not have
C16_Witness ==
    /\ pc = "sw_quit"
    /\ dele_marks # {}
    /\ \E u \in ever_ok :
          /\ ~retrieved_mails[u].present
          /\ u \notin DOMAIN server_uidls

\* ------------------------------------------------------------------ C17
\* C17: with a retention window of zero the sweep returns at once: it opens
\* no session, issues no DELE and leaves the ledger and the maildrop as they
\* were, whatever rows with success = true the ledger holds
C17_RetentionZeroNoop ==
    /\ [](retention_days = 0 =>
             /\ pc \notin {"sw_conn", "sw_loop", "sw_quit"}
             /\ mails_to_delete = {}
             /\ txn = {}
             /\ dele_marks = {})
    /\ [][(retention_days = 0 /\ pc = "sweep") =>
             /\ pc' = "fetch"
             /\ UNCHANGED <<retrieved_mails, mailbox, server_uidls,
                            dele_marks, mails_to_delete, txn>>]_vars

\* a sweep with a window of zero has returned on a ledger that holds a
\* success = true row of the greatest age, whose message is on the maildrop
C17_Witness ==
    /\ retention_days = 0
    /\ pc = "fetch"
    /\ \E u \in UIDLS :
          /\ retrieved_mails[u].present
          /\ retrieved_mails[u].forward_success
          /\ retrieved_mails[u].forwarded_at = 0 - MaxAge
          /\ mailbox[u].present

\* ------------------------------------------------------------------ C18
\* C18: when the connect, the authentication or the listing of the sweep
\* raises, the sweep is over for this cycle: no DELE is issued, nothing is
\* left selected, and the ledger and the maildrop are what they were before
\* the sweep; no row has been removed
C18_SessionFailureKeepsLedger ==
    [][(pc = "sw_conn" /\ pc' # "sw_loop") =>
          /\ pc' = "fetch"
          /\ retrieved_mails' = retrieved_mails
          /\ mailbox' = mailbox
          /\ mails_to_delete' = {}
          /\ txn' = {}
          /\ dele_marks' = {}
          /\ \A u \in mails_to_delete : retrieved_mails'[u].present]_vars

\* a sweep that had selected rows is over, and every row it could select is
\* still in the ledger while its message is on the maildrop
C18_Witness ==
    /\ pc = "fetch"
    /\ retention_days # 0
    /\ \E u \in UIDLS : Due(u) /\ mailbox[u].present
    /\ \A u \in ever_ok : retrieved_mails[u].present

\* ------------------------------------------------------------------ C19
\* the positions inside _delete_old_mails
SweepStates == {"sweep", "sw_conn", "sw_loop", "sw_quit"}

C20_ConnectFailureNoProgress ==
    /\ [](fetch_error = "connect" =>
             /\ pc \notin {"f_loop", "fwd", "save"}
             /\ retrs = {}
             /\ skipped = {}
             /\ new_mails = <<>>
             /\ outcomes = <<>>
             /\ idx = 0)
    /\ [][fetch_error' = "connect" =>
             /\ retrieved_mails' = retrieved_mails
             /\ mailbox' = mailbox
             /\ \A u \in UIDLS : ~Submits(u) /\ ~Retrieves(u)]_vars

\* an invocation whose session could not be opened is over while a message
\* without a ledger row waits on the maildrop
C20_Witness ==
    /\ fetch_error = "connect"
    /\ pc \in {"stopped", "wait"}
    /\ \E u \in UIDLS :
          /\ mailbox[u].present
          /\ mailbox[u].from_ok
          /\ ~retrieved_mails[u].present

\* ------------------------------------------------- startup, any config file
\* the file at config_path: absent; present and not YAML; YAML without the
\* database section; YAML without the pop3 section; complete
ConfigFiles == {"missing", "unparsable", "no_database", "no_pop3", "ok"}

\* a loader that returns an empty configuration for a file it cannot load
load_config_exits_never(file) == FALSE

\* lines 434-443: open raises FileNotFoundError or yaml.safe_load raises
\* yaml.YAMLError; both end in sys.exit(1)
load_config_exits(file) == file \in {"missing", "unparsable"}

\* line 404: self.config = self._load_config(config_path), the first
\* statement of __init__
load_config ==
    /\ pc = "load_config"
    /\ pc' = IF load_config_exits(config_file) THEN "exit_1" ELSE "init"
    /\ UNCHANGED <<mode, running, cfgVars, envVars, retrieved_mails, sessVars,
                   sweepVars, fetchVars, relayVars, histVars>>

\* lines 405-412: _setup_logging, db_path, self.running = True and the
\* signal handlers; a configuration without its database section raises
\* KeyError at line 406, which nothing catches: the interpreter prints the
\* traceback and exits with status 1
forwarder_init ==
    /\ pc = "init"
    /\ IF config_file = "no_database"
       THEN /\ pc' = "exit_1"
            /\ UNCHANGED running
       ELSE /\ pc' = "init_database"
            /\ running' = TRUE
    /\ UNCHANGED <<mode, cfgVars, envVars, retrieved_mails, sessVars,
                   sweepVars, fetchVars, relayVars, histVars>>

\* lines 415, 485-505: CREATE TABLE IF NOT EXISTS leaves the rows of a
\* ledger that exists as they are
init_database ==
    /\ pc = "init_database"
    /\ db_ready' = TRUE
    /\ pc' = "dispatch"
    /\ UNCHANGED <<mode, running, start_date, retention_days, pop_before_smtp,
                   config_file, arg_start_date, envVars, retrieved_mails,
                   sessVars, sweepVars, fetchVars, relayVars, histVars>>

\* lines 1038-1043: main calls process_daemon or process_once
main_dispatch ==
    /\ pc = "dispatch"
    /\ pc' = IF mode = "daemon" THEN "loop" ELSE "sweep"
    /\ UNCHANGED <<mode, running, cfgVars, envVars, retrieved_mails, sessVars,
                   sweepVars, fetchVars, relayVars, histVars>>

\* main is about to construct the forwarder (line 1035), on any
\* configuration file, any ledger left by earlier runs and any maildrop
InitStartup ==
    /\ mode \in Modes
    /\ start_date \in StartDates
    /\ retention_days \in RetentionChoices
    /\ pop_before_smtp \in BOOLEAN
    /\ config_file \in ConfigFiles
    /\ arg_start_date = NoArg
    /\ db_ready = FALSE
    /\ running = FALSE
    /\ pc = "load_config"
    /\ now = 0
    /\ mailbox \in [UIDLS -> ArrivalKinds \cup {NoMail}]
    /\ \E rows \in [UIDLS -> {"none", "ok", "failed"}] :
          retrieved_mails = [u \in UIDLS |->
                                IF rows[u] = "none" THEN NoEntry
                                ELSE RowOf(u, rows[u] = "ok")]
    /\ nextUidl = MaxUidl + 1
    /\ Idle
    /\ ever_ok = {u \in UIDLS : retrieved_mails[u].present
                                 /\ retrieved_mails[u].forward_success}
    /\ interrupted = NoBatch
    /\ settled = "no"

NextStartup ==
    \/ load_config
    \/ forwarder_init
    \/ init_database
    \/ main_dispatch

\* the construction of the forwarder and the choice of the mode
SpecStartup == InitStartup /\ [][NextStartup]_vars

\* ------------------------------------------------ --start-date, any string
\* A field of a date or time text: its value and the character written
\* before a value of one digit ("" for none, "0", or " "); a value of two
\* digits has none.
Fields(values, pads) ==
    {[v |-> v, pad |-> pad] : v \in values, pad \in pads} \
        {[v |-> v, pad |-> pad] : v \in {w \in values : w >= 10},
                                 pad \in pads \ {""}}

\* the number of characters of a field
Width(f) == IF f.v >= 10 \/ f.pad # "" THEN 2 ELSE 1

\* the text before the time: year, separator, month, separator, day
YearTexts == {25, 2024, 2025}
MonthFields == Fields({0, 2, 12, 13}, {"", "0"})
DayFields == Fields({0, 1, 29, 30, 31}, {"", "0", " "})

\* the text after the day: nothing; or what stands between the day and the
\* time (nothing, one space, several white-space characters, a letter T)
\* and the first n of hour, minute and second with colons between them
NoTime == [gap |-> "end", n |-> 0, H |-> [v |-> 0, pad |-> "0"],
           M |-> [v |-> 0, pad |-> "0"], S |-> [v |-> 0, pad |-> "0"]]
TimeTexts ==
    {NoTime} \cup
    [gap : {"none", "space", "spaces", "T"}, n : 1..3,
     H : Fields({5, 23, 25}, {"", "0"}), M : Fields({30, 60}, {"", "0"}),
     S : Fields({0, 59, 60}, {"", "0"})]

\* the strings given with --start-date: the empty string, or a date text
\* with either separator followed by a time text (a time written directly
\* after the day stands after a day of two characters, so that every text
\* is read in one way only)
EmptyText == [given |-> TRUE, empty |-> TRUE]
ArgTexts ==
    {EmptyText} \cup
    {a \in [given : {TRUE}, empty : {FALSE}, y : YearTexts, sep : {"-", "/"},
            m : MonthFields, d : DayFields, time : TimeTexts] :
        a.time.gap = "none" => Width(a.d) = 2}

\* the value datetime.strptime raises
ValueError ==
    [ok |-> FALSE, year |-> 0, month |-> 0, day |-> 0, hour |-> 0,
     minute |-> 0, second |-> 0, utcoffset |-> 0]

\* a naive datetime
Datetime(y, m, d, H, M, S) ==
    [ok |-> TRUE, year |-> y, month |-> m, day |-> d, hour |-> H,
     minute |-> M, second |-> S, utcoffset |-> 0]

\* the days of a month of the calendar datetime uses
DaysIn(y, m) ==
    IF m = 2
    THEN (IF (y % 4 = 0 /\ y % 100 # 0) \/ y % 400 = 0 THEN 29 ELSE 28)
    ELSE IF m \in {4, 6, 9, 11} THEN 30 ELSE 31

\* what the regular expression of %Y-%m-%d matches at the start of the
\* text: four digits, a hyphen, a month 1..12 of one or two digits, a
\* hyphen, a day 1..31 of one or two digits or of a space and one digit
MatchesDate(a) ==
    /\ ~a.empty
    /\ a.y >= 1000
    /\ a.sep = "-"
    /\ a.m.v \in 1..12
    /\ a.d.v \in 1..31

\* what the regular expression of " %H:%M:%S" matches after the day: white
\* space (one character or more), an hour 0..23, a minute 0..59 and a
\* second 0..61, each of one or two digits
MatchesTime(t) ==
    /\ t.gap \in {"space", "spaces"}
    /\ t.n = 3
    /\ t.H.v \in 0..23
    /\ t.M.v \in 0..59
    /\ t.S.v \in 0..61

\* datetime.strptime(date_string, format) for the two formats of
\* parse_start_date: the whole text has to match the format, and the
\* fields have to make a datetime
strptime(a, format) ==
    IF format = "%Y-%m-%d %H:%M:%S"
    THEN IF /\ MatchesDate(a)
            /\ MatchesTime(a.time)
            /\ a.d.v <= DaysIn(a.y, a.m.v)
            /\ a.time.S.v <= 59
         THEN Datetime(a.y, a.m.v, a.d.v, a.time.H.v, a.time.M.v, a.time.S.v)
         ELSE ValueError
    ELSE IF /\ MatchesDate(a)
            /\ a.time.gap = "end"
            /\ a.d.v <= DaysIn(a.y, a.m.v)
         THEN Datetime(a.y, a.m.v, a.d.v, 0, 0, 0)
         ELSE ValueError

\* a parse that keeps the datetime naive
replace_tzinfo_none(dt, hours) == dt

\* dt.replace(tzinfo=timezone(timedelta(hours=9)))
replace_tzinfo(dt, hours) == [dt EXCEPT !.utcoffset = hours]

\* lines 52-68: the format with the time first, then the date alone; the
\* ValueError of the second attempt is raised again with its own text
parse_start_date(date_string) ==
    LET long == strptime(date_string, "%Y-%m-%d %H:%M:%S")
        short == strptime(date_string, "%Y-%m-%d")
    IN IF long.ok THEN replace_tzinfo(long, 9)
       ELSE IF short.ok THEN replace_tzinfo(short, 9)
       ELSE ValueError

\* lines 1025-1032 of main: the option is parsed when it is given and not
\* empty; a ValueError is printed and the process exits with status 1
main_start_date ==
    /\ pc = "parse_args"
    /\ IF ~arg_start_date.given \/ arg_start_date.empty
       THEN /\ start_date' = NoDate
            /\ pc' = "load_config"
       ELSE LET parsed == parse_start_date(arg_start_date)
            IN IF parsed.ok
               THEN /\ start_date' = <<"aware", parsed>>
                    /\ pc' = "load_config"
               ELSE /\ pc' = "exit_1"
                    /\ UNCHANGED start_date
    /\ UNCHANGED <<mode, running, retention_days, pop_before_smtp,
                   config_file, db_ready, arg_start_date, envVars,
                   retrieved_mails, sessVars, sweepVars, fetchVars, relayVars,
                   histVars>>

\* main has read its arguments (line 1016): any text may stand after
\* --start-date
InitArgs ==
    /\ mode \in Modes
    /\ start_date = NoDate
    /\ retention_days = 0
    /\ pop_before_smtp = FALSE
    /\ config_file = "ok"
    /\ db_ready = FALSE
    /\ arg_start_date \in {NoArg} \cup ArgTexts
    /\ running = FALSE
    /\ pc = "parse_args"
    /\ now = 0
    /\ mailbox = [u \in UIDLS |-> NoMail]
    /\ retrieved_mails = [u \in UIDLS |-> NoEntry]
    /\ nextUidl = 1
    /\ Idle
    /\ ever_ok = {}
    /\ interrupted = NoBatch
    /\ settled = "no"

NextArgs ==
    \/ main_start_date
    \/ load_config
    \/ forwarder_init
    \/ init_database
    \/ main_dispatch

\* main from its arguments to the choice of the mode
SpecArgs == InitArgs /\ [][NextArgs]_vars

\* --------------------------------------------------------------- claims 21-30
\* every step of the loop but the delivery of a signal
DaemonProgress ==
    \/ process_daemon_loop
    \/ delete_old_mails_select
    \/ delete_old_mails_connect
    \/ delete_old_mails_row
    \/ delete_old_mails_commit
    \/ delete_old_mails_quit
    \/ fetch_new_mails_connect
    \/ fetch_new_mails_one
    \/ fetch_new_mails_quit
    \/ relay_next
    \/ authenticate_pop_before_smtp
    \/ authenticate_pop_before_smtp_quit
    \/ forward_mail_connect
    \/ forward_mail_sendmail
    \/ forward_mail_quit
    \/ relay_save
    \/ process_daemon_except
    \/ process_daemon_sleep
    \/ interval_elapses
    \/ sleep_return

\* the loop of process_daemon when every call it makes returns or raises
\* and every sleep ends
SpecDaemonLive == SpecDaemon /\ WF_vars(DaemonProgress)

\* the process is at the sweep, the fetch or the relay loop of one cycle
\* (lines 936-944)
InCycle == pc \notin {"stopped", "loop", "wait", "sleep", "slept"}

\* C21: continuous mode never exits on a cycle's error.  The process ends
\* only at the while test with the running flag cleared; a cycle that ends,
\* with or without an error, while the flag is set goes to the sleep; the
\* sleep is followed by the while test and, the flag still set, by a new
\* cycle that starts with the sweep and goes on to the fetch unless it
\* raises; and a cycle that ended with the flag set leads to a new cycle or
\* to a cleared flag, however many cycles failed before.
C21_NeverExitsOnError ==
    /\ [][pc' = "stopped" /\ pc # "stopped" => pc = "loop" /\ ~running]_vars
    /\ [][InCycle /\ ~InCycle' /\ running => pc' = "wait"]_vars
    /\ [][pc = "wait" => pc' \in {"wait", "sleep"}]_vars
    /\ [][pc = "sleep" => pc' \in {"sleep", "slept"}]_vars
    /\ [][pc = "slept" => pc' \in {"slept", "loop"}]_vars
    /\ [][pc = "loop" /\ running => pc' \in {"loop", "sweep"}]_vars
    /\ [][(pc \in {"sweep", "sw_conn", "sw_loop", "sw_quit"}) /\ ~InCycle'
             => pc = "sweep" /\ process_daemon_except]_vars
    /\ (pc = "wait" /\ running) ~> (pc = "sweep" \/ ~running)
    /\ (pc = "sweep") ~> (pc = "fetch" \/ ~InCycle)

\* a new cycle has begun after a cycle whose fetch could not connect
C21_Witness == pc = "sweep" /\ running /\ fetch_error = "connect"

\* C22: the running flag is checked before sleeping and before starting the
\* next cycle.  Once the flag is cleared no time.sleep call is begun and no
\* cycle is begun, and a flag cleared during a sleep is followed by the end
\* of the loop without another cycle.
C22_FlagCheckedBeforeSleepAndCycle ==
    /\ [][pc' = "sleep" /\ pc # "sleep" => running]_vars
    /\ [][pc' = "sweep" /\ pc # "sweep" => running]_vars
    /\ [][(pc \in {"sleep", "slept", "loop"}) /\ ~running => ~InCycle']_vars

\* C23: a signal received during the sleep interrupts it.  While the process
\* is in time.sleep with the flag cleared, the call can return although the
\* interval is not over.
C23_SignalInterruptsSleep ==
    pc = "sleep" /\ ~running => ENABLED sleep_return

\* the process is inside _forward_mail
InSubmit == pc \in {"fwd", "pa_quit", "smtp_conn", "sendmail", "smtp_quit"}

\* every message of the batch was submitted and has the row of its outcome
BatchDone ==
    /\ idx = Len(new_mails)
    /\ Len(outcomes) = Len(new_mails)
    /\ \A j \in 1..Len(new_mails) :
          /\ retrieved_mails[new_mails[j].uidl].present
          /\ retrieved_mails[new_mails[j].uidl].forward_success = outcomes[j]

\* C24: a signal inside a cycle aborts no submit and skips no ledger write.
\* The delivery of a signal changes the running flag and nothing else; a
\* _forward_mail call in progress is left only by its return, which is
\* followed by the ledger write; the relay loop is left, whatever the
\* flag, only when every message of the batch was submitted and recorded
\* (or by an error of the ledger); and the process ends only at the while
\* test between two cycles.
C24_SignalAbortsNothing ==
    /\ [][running /\ ~running'
             => UNCHANGED <<mode, pc, cfgVars, envVars, retrieved_mails,
                            sessVars, sweepVars, fetchVars, relayVars>>]_vars
    /\ [][InSubmit => InSubmit' \/ (pc' = "save" /\ Len(outcomes') = idx)]_vars
    /\ [][pc = "save" /\ pc' # "save" => relay_save \/ process_daemon_except]_vars
    /\ [][pc = "relay" /\ ~InCycle' => BatchDone]_vars
    /\ [][pc' = "stopped" /\ pc # "stopped" => pc = "loop"]_vars
    /\ [](InCycle => ENABLED DaemonProgress)

\* the flag was cleared inside the cycle and the batch of at least two
\* messages is submitted and recorded to its end
C24_Witness ==
    /\ ~running
    /\ pc = "relay"
    /\ Len(new_mails) >= 2
    /\ BatchDone

\* C25: at most one mailbox session of the program is open at any moment.
\* The sweep's session is open only inside the sweep, the fetch's only
\* inside the fetch, the pre-authentication's only inside
\* _authenticate_pop_before_smtp, also after a sweep or a fetch that ended
\* with an error; and between two cycles no session and no relay connection
\* is open and nothing of the cycle is left.
C25_OneSession ==
    /\ Cardinality(sessions) <= 1
    /\ "sweep" \in sessions => pc \in {"sw_loop", "sw_quit"}
    /\ "fetch" \in sessions => pc = "f_loop"
    /\ "preauth" \in sessions => pc = "pa_quit"
    /\ ~InCycle => /\ sessions = {}
                   /\ smtp = NoRelay
                   /\ new_mails = <<>>
                   /\ mails_to_delete = {}

\* the pre-authentication session is open in a cycle whose fetch ended with
\* an error after it had retrieved a message
C25_Witness ==
    /\ sessions = {"preauth"}
    /\ fetch_error # "none"

\* the process is inside _authenticate_pop_before_smtp or about to call it
InPreAuth == pop_before_smtp /\ pc \in {"fwd", "pa_quit"}

\* C26: with POP before SMTP enabled, every delivery attempt makes the
\* pre-authentication before it dials the relay, and an attempt whose
\* pre-authentication fails is a failed attempt: it returns False without
\* having dialed the relay or submitted anything, and the row written for
\* the message carries success = false.
C26_PreAuthFailureFailsAttempt ==
    /\ [][pc' = "pa_quit" /\ pc # "pa_quit" => pc = "fwd"]_vars
    /\ [][pop_before_smtp /\ pc' = "smtp_conn" /\ pc # "smtp_conn"
             => pc = "pa_quit" /\ "preauth" \in sessions]_vars
    /\ [][pop_before_smtp /\ smtp'.dialed /\ ~smtp.dialed
             => pc = "smtp_conn"]_vars
    /\ [][InPreAuth /\ pc' = "save"
             => /\ ~success'
                /\ outcomes' = Append(outcomes, FALSE)
                /\ smtp' = NoRelay]_vars
    /\ [][pc = "save" /\ pc' = "relay"
             => retrieved_mails'[new_mails[idx].uidl].forward_success
                   = success]_vars
    /\ [](pop_before_smtp /\ pc = "save" /\ ~smtp.dialed => ~success)

\* the first attempt of a batch returned after a pre-authentication that
\* failed: the relay was not dialed
C26_Witness ==
    /\ pop_before_smtp
    /\ pc = "save"
    /\ idx = 1
    /\ ~smtp.dialed
    /\ outcomes = <<FALSE>>

\* C27: every relay submit carries the relay account as envelope sender,
\* the configured destination as recipient, and the message of that UIDL as
\* content.  sendmail is called only at its place in _forward_mail, with
\* smtp.username, forward.to_address and the bytes retrieved for the UIDL
\* of the tuple in hand; what the relay receives is, byte for byte, the
\* message the maildrop holds under that UIDL.
C27_EnvelopeAndContent ==
    /\ [][smtp'.sent # smtp.sent /\ smtp'.sent.present => pc = "sendmail"]_vars
    /\ [][pc = "sendmail" /\ pc' # "sendmail" => smtp'.sent.present]_vars
    /\ [](smtp.sent.present =>
            /\ smtp.sent.from_addr = smtp_username
            /\ smtp.sent.to_addrs = to_address
            /\ smtp.sent.msg = mail_data(new_mails[idx].data)
            /\ new_mails[idx].data = new_mails[idx].uidl
            /\ Delivered(smtp.sent.msg) = Stored(new_mails[idx].uidl))

\* the second message of a batch was accepted by the relay with its own
\* content
C27_Witness ==
    /\ idx = 2
    /\ smtp.sent.present
    /\ smtp.sent.accepted
    /\ Delivered(smtp.sent.msg) = Stored(new_mails[2].uidl)
    /\ new_mails[1].uidl # new_mails[2].uidl

\* C28: one single-pass execution submits each message the fetch returned
\* exactly once and ends with a ledger row for each of them.  When
\* process_once leaves its relay loop and ends, every tuple of the list was
\* taken once, has one outcome, and has the row of that outcome.
C28_SinglePassEndToEnd ==
    [][mode = "once" /\ pc = "relay" /\ pc' = "stopped" => BatchDone]_vars

\* line 667 / 726: len(new_uidls), the listed UIDLs that had no row when the
\* listing was compared with the ledger: those still to visit, those
\* skipped and those put in the list
new_count == Cardinality(new_uidls) + Cardinality(skipped) + Len(new_mails)

\* lines 697 / 730: skipped_count
skipped_count == Cardinality(skipped)

\* lines 857-858 / 884: forwarded_count
forwarded_count == Cardinality({j \in 1..Len(outcomes) : outcomes[j]})

\* lines 865-866 / 887: failed_count
failed_count == Cardinality({j \in 1..Len(outcomes) : ~outcomes[j]})

\* C29: an invocation yields the counts new, relayed-success,
\* relayed-failure and filtered, with new = relayed-success +
\* relayed-failure + filtered.  When the invocation is over, the number of
\* listed UIDLs that had no row equals the number of submits that succeeded
\* plus the number that failed plus the number of messages the cutoff
\* skipped.
C29_CountsAddUp ==
    [][pc = "relay" /\ ~InCycle'
          => new_count = forwarded_count + failed_count + skipped_count]_vars

\* C30: a configuration file that is missing or cannot be loaded is fatal at
\* startup only.  With such a file the process is at the loader or has
\* exited with status 1: the ledger was not initialised, the running flag
\* never set, no session or relay connection opened, nothing retrieved or
\* submitted, and the ledger and the maildrop are as they were; the exit is
\* final; and the only steps that exit with status 1 are those of the
\* construction of the forwarder.  (A file without its database section
\* gets as far as line 406 and ends the same way.)
C30_ConfigFatalAtStartup ==
    /\ [](config_file \in {"missing", "unparsable", "no_database"}
             => /\ pc \in {"load_config", "init", "exit_1"}
                /\ config_file # "no_database" => pc # "init"
                /\ ~db_ready
                /\ ~running
                /\ Idle)
    /\ [][pc = "load_config" /\ (config_file \in {"missing", "unparsable"})
             => pc' = "exit_1"]_vars
    /\ [][(config_file \in {"missing", "unparsable", "no_database"})
             => UNCHANGED <<retrieved_mails, mailbox>>]_vars
    /\ [][pc' = "exit_1" /\ pc # "exit_1" => pc \in {"load_config", "init"}]_vars
    /\ [](pc = "exit_1" => ~ENABLED NextStartup)

\* the process has exited on a file that is not YAML, with the ledger of
\* earlier runs in place and a message waiting on the maildrop
C30_Witness ==
    /\ pc = "exit_1"
    /\ config_file = "unparsable"
    /\ \E u \in UIDLS : retrieved_mails[u].present
    /\ \E u \in UIDLS : mailbox[u].present /\ ~retrieved_mails[u].present

\* --------------------------------------------------------------- claims 31-40
\* C31: with a negative retention window the sweep deletes nothing.  While
\* mail_retention_days is negative the sweep selects no row, opens no
\* session and issues no DELE, and no step removes a ledger row or a
\* message of the maildrop.
C31_NegativeRetentionNoop ==
    /\ [](retention_days < 0 =>
             /\ pc \notin {"sw_conn", "sw_loop", "sw_quit"}
             /\ mails_to_delete = {}
             /\ txn = {}
             /\ dele_marks = {})
    /\ [][(retention_days < 0) =>
             UNCHANGED <<retrieved_mails, mailbox>>]_vars

\* the argument is a text that parse_start_date was given (in every other
\* specification the cutoff is a number of the clock; here it is the
\* datetime the text was parsed to)
Parsed == arg_start_date.given /\ ~arg_start_date.empty /\ pc # "parse_args"

\* the text is written as YYYY-MM-DD or YYYY-MM-DD HH:MM:SS, every field
\* with all its digits and one space before the time
StrictForm(a) ==
    /\ a.y \in 1000..9999
    /\ a.sep = "-"
    /\ Width(a.m) = 2 /\ a.m.pad # " "
    /\ Width(a.d) = 2 /\ a.d.pad # " "
    /\ \/ a.time.gap = "end"
       \/ /\ a.time.gap = "space"
          /\ a.time.n = 3
          /\ Width(a.time.H) = 2
          /\ Width(a.time.M) = 2
          /\ Width(a.time.S) = 2

\* the same with the fields after the year of one or two digits, the day
\* also of a space and one digit, and any white space before the time
LooseForm(a) ==
    /\ a.y \in 1000..9999
    /\ a.sep = "-"
    /\ a.time.gap \in {"end", "space", "spaces"}
    /\ a.time.gap # "end" => a.time.n = 3

\* the fields name a date of the calendar and a time of the day
Exists(a) ==
    /\ a.m.v >= 1 /\ a.m.v <= 12
    /\ a.d.v >= 1
    /\ a.d.v <= (IF a.m.v = 2
                 THEN (IF a.y % 4 = 0 /\ (a.y % 100 # 0 \/ a.y % 400 = 0)
                       THEN 29 ELSE 28)
                 ELSE IF a.m.v \in {4, 6, 9, 11} THEN 30 ELSE 31)
    /\ a.time.gap # "end" =>
          a.time.H.v <= 23 /\ a.time.M.v <= 59 /\ a.time.S.v <= 59

\* the cutoff a text denotes: its date, its time or midnight, at UTC+9
CutoffOf(a) ==
    <<"aware",
      [ok |-> TRUE, year |-> a.y, month |-> a.m.v, day |-> a.d.v,
       hour |-> IF a.time.gap = "end" THEN 0 ELSE a.time.H.v,
       minute |-> IF a.time.gap = "end" THEN 0 ELSE a.time.M.v,
       second |-> IF a.time.gap = "end" THEN 0 ELSE a.time.S.v,
       utcoffset |-> 9]>>

\* C32 as stated: a cutoff text is accepted exactly when it has the form
\* YYYY-MM-DD or YYYY-MM-DD HH:MM:SS and names an existing date and time;
\* the cutoff is then that date and time (midnight for a date alone) at
\* UTC+9, and every other text ends the process with an error.
C32_AcceptedIffStrictForm ==
    /\ arg_start_date.given /\ arg_start_date.empty =>
          ~parse_start_date(arg_start_date).ok
    /\ Parsed =>
          /\ pc # "exit_1" <=>
                StrictForm(arg_start_date) /\ Exists(arg_start_date)
          /\ pc # "exit_1" => start_date = CutoffOf(arg_start_date)
          /\ pc = "exit_1" => start_date = NoDate

\* C32, amended: a cutoff text is accepted exactly when it is a year of
\* four digits, a month and a day of one or two digits (the day also a
\* space and one digit) between hyphens, alone or followed by white space
\* and hour, minute and second of one or two digits between colons, and
\* names an existing date and time; the cutoff is then that date and time
\* (midnight for a date alone) at UTC+9, and every other text ends the
\* process with an error.  The function rejects the empty text; main does
\* not parse an empty argument and goes on without a cutoff.
C32_AcceptedIffLooseForm ==
    /\ arg_start_date.given /\ arg_start_date.empty =>
          /\ ~parse_start_date(arg_start_date).ok
          /\ pc # "exit_1"
          /\ start_date = NoDate
    /\ Parsed =>
          /\ pc # "exit_1" <=>
                LooseForm(arg_start_date) /\ Exists(arg_start_date)
          /\ pc # "exit_1" => start_date = CutoffOf(arg_start_date)
          /\ pc = "exit_1" => start_date = NoDate

\* a date alone with a month of one digit is accepted as midnight at UTC+9
C32_Witness ==
    /\ Parsed
    /\ arg_start_date.time.gap = "end"
    /\ Width(arg_start_date.m) = 1
    /\ pc = "dispatch"
    /\ start_date[1] = "aware"
    /\ start_date[2].hour = 0
    /\ start_date[2].utcoffset = 9

\* C33: with a retention window other than zero and no row selected (no row
\* with success = true older than the cutoff) the sweep does nothing: it
\* returns at once, opens no session, issues no DELE and leaves the ledger
\* and the maildrop as they are; the sweep is at the mailbox only while a
\* row is selected
C33_EmptySelectionNoop ==
    /\ [](pc \in {"sw_conn", "sw_loop"} => \E u \in UIDLS : Due(u))
    /\ [][(pc = "sweep" /\ retention_days # 0 /\ \A u \in UIDLS : ~Due(u)) =>
             /\ pc' = "fetch"
             /\ UNCHANGED <<retrieved_mails, mailbox, sessVars, sweepVars>>]_vars

\* the sweep has returned with the window at one day and nothing due: every
\* UIDL still has its row, one a failed row older than the window, one a
\* success row younger than it whose message is on the server
C33_Witness ==
    /\ pc = "fetch"
    /\ retention_days = 1
    /\ \A u \in UIDLS : retrieved_mails[u].present /\ ~Due(u)
    /\ \E u \in UIDLS : /\ ~retrieved_mails[u].forward_success
                        /\ retrieved_mails[u].forwarded_at < now - 1
    /\ \E u \in UIDLS : /\ retrieved_mails[u].forward_success
                        /\ mailbox[u].present
    /\ sessions = {}

\* C34: after a sweep, whatever step of it failed, every UIDL whose row the
\* sweep removed is gone from the maildrop: a sweep that ends before its
\* commit leaves the ledger and the maildrop as they were, and a sweep that
\* ends after its commit has removed from the maildrop every message it
\* marked and whose row it removed
C34_SweeperConsistency ==
    /\ [][(pc \in {"sw_conn", "sw_loop"} /\ pc' \notin SweepStates) =>
             UNCHANGED <<retrieved_mails, mailbox>>]_vars
    /\ [][(pc = "sw_quit" /\ pc' # "sw_quit") =>
             \A u \in DOMAIN server_uidls :
                (server_uidls[u] \in dele_marks /\ ~retrieved_mails'[u].present)
                   => ~mailbox'[u].present]_vars

\* C35: the removals of a sweep are all-or-nothing: up to the commit no step
\* of the sweep changes the ledger, the rows whose DELETE was executed
\* included, so when a DELE raises in the middle of the loop the sweep ends
\* with every row it had deleted still in the ledger, which is as it was
\* before the sweep
C35_AllOrNothing ==
    /\ [](pc \in {"sw_conn", "sw_loop"} =>
             \A u \in txn \cup mails_to_delete :
                retrieved_mails[u].present /\ Due(u))
    /\ [][(pc \in {"sweep", "sw_conn", "sw_loop"} /\ pc' # "sw_quit") =>
             UNCHANGED retrieved_mails]_vars
    /\ [][(pc = "sw_loop" /\ pc' \notin {"sw_loop", "sw_quit"}) =>
             /\ txn' = {}
             /\ dele_marks' = {}
             /\ UNCHANGED <<retrieved_mails, mailbox>>]_vars

\* the loop has executed the DELETE of one row, marked its message, and the
\* DELE of the next selected message can raise now
C35_Witness ==
    /\ pc = "sw_loop"
    /\ txn # {}
    /\ dele_marks # {}
    /\ \E u \in mails_to_delete : u \in DOMAIN server_uidls
    /\ ENABLED (delete_old_mails_row /\ pc' = "fetch")

\* C36: from the same ledger, maildrop and relay behaviour a cycle of the
\* continuous mode and a single pass do the same.  The sweep and the fetch
\* are the same two methods in both modes; the relay loop of either mode,
\* given the list the fetch returned, takes up the next message while one is
\* left and is over only when every message of the list was submitted and
\* has the row of its outcome.
C36_CycleEqualsSinglePass ==
    /\ [][(pc = "relay" /\ idx < Len(new_mails)) =>
             /\ pc' = "fwd"
             /\ idx' = idx + 1
             /\ UNCHANGED <<new_mails, outcomes, retrieved_mails, mailbox>>]_vars
    /\ [][(pc = "relay" /\ pc' \notin {"relay", "fwd"}) =>
             /\ Len(outcomes) = Len(new_mails)
             /\ \A j \in 1..Len(new_mails) :
                   /\ retrieved_mails'[new_mails[j].uidl].present
                   /\ retrieved_mails'[new_mails[j].uidl].forward_success
                         = outcomes[j]]_vars

\* C37: eventual handling.  In continuous mode with no shutdown, if from some
\* point on no connect, login, listing or RETR fails (and the ledger raises
\* no error), every message that stays on the server eventually has a row,
\* whatever failed in the cycles before.
C37_EventualHandling ==
    \A u \in UIDLS :
       (/\ []running
        /\ <>[](fetch_error \notin {"connect", "retr"})
        /\ <>[][~process_daemon_except]_vars
        /\ [](mailbox[u].present))
          => <>(retrieved_mails[u].present)

\* C38: the reconciliation never writes a row for a UIDL that had one when
\* the invocation began.  A write of the fetch loop (line 704) or of the
\* relay loop (lines 855 / 944) is for a UIDL without a row; from the
\* reading of the ledger to the end of the invocation the UIDLs still to
\* visit or to relay have no row; and the flag and the sender and subject of
\* a row never change while the row exists: a row goes away only in the
\* commit of the sweep.
C38_ExistingRowsUntouched ==
    /\ [](pc = "f_loop" => \A u \in new_uidls : ~retrieved_mails[u].present)
    /\ [][\A u \in UIDLS :
             /\ ((pc = "save" /\ pc' = "relay" /\ new_mails[idx].uidl = u)
                    \/ (pc = "f_loop" /\ u \in skipped' \ skipped))
                   => ~retrieved_mails[u].present /\ retrieved_mails'[u].present
             /\ retrieved_mails[u].present =>
                   IF retrieved_mails'[u].present
                   THEN /\ retrieved_mails'[u].forward_success
                              = retrieved_mails[u].forward_success
                        /\ retrieved_mails'[u].who = retrieved_mails[u].who
                   ELSE pc = "sw_loop" /\ pc' = "sw_quit"]_vars

\* a relay loop has written the row of a new message while the listed
\* message of an earlier cycle keeps its success = false row
C38_Witness ==
    /\ pc = "relay"
    /\ idx >= 1
    /\ idx = Len(outcomes)
    /\ retrieved_mails[new_mails[idx].uidl].present
    /\ \E v \in UIDLS :
          /\ FailedRow(v)
          /\ mailbox[v].present
          /\ retrieved_mails[v].forwarded_at < now
          /\ ~Selected(v)

\* C39: shutdown liveness.  After a signal has cleared the flag in continuous
\* mode, and when every mailbox and relay call returns and the sleep ends,
\* the loop terminates; until then the process at most finishes the cycle it
\* is in: no step made with the flag cleared begins a cycle, and the fetch
\* is entered only from the sweep of the cycle in progress.
C39_ShutdownLiveness ==
    /\ (~running) ~> (pc = "stopped")
    /\ [][(~running /\ ~InCycle) => ~InCycle']_vars
    /\ [][(~running /\ pc' = "sweep") => pc = "sweep"]_vars
    /\ [][(~running /\ pc' = "fetch") => pc \in SweepStates \cup {"fetch"}]_vars
    /\ [][pc' = "stopped" => pc \in {"loop", "stopped"}]_vars

\* the flag was cleared while a cycle is in its relay loop: the second
\* message of the batch is being submitted after the first got its row
C39_Witness ==
    /\ ~running
    /\ pc \in {"smtp_conn", "sendmail"}
    /\ idx = 2
    /\ retrieved_mails[new_mails[1].uidl].present

\* C40: order independence.  For a fixed server list, ledger, cutoff and
\* outcome of each UIDL, what one invocation submits and records does not
\* depend on the order in which the new set is visited: when a fetch whose
\* connect and RETR commands all succeeded returns, each UIDL of the new set
\* has had the treatment its own message calls for: in the returned list iff
\* its message is one to forward, recorded as skipped iff its message is
\* older than the cutoff.  (The order that visits the messages whose parse
\* raises last gives exactly this result, so any other result is a
\* dependence on the order.)  A message whose treatment differs between the
\* two readings of lines 690-714 is left out.
C40_OrderIndependence ==
    [][(pc = "f_loop" /\ pc' = "relay" /\ fetch_error' \notin {"connect", "retr"})
          => \A u \in NewSet :
                LET what == fetch_one(mailbox[u], start_date, TRUE)
                IN what = fetch_one(mailbox[u], start_date, FALSE) =>
                      /\ what = "forward" <=> Selected(u)
                      /\ what = "skip" <=>
                            u \in skipped /\ FailedRow(u)]_vars

====
